---- MODULE Spec2Model ----
(***************************************************************************)
(* Verification model of the storage-engine core of nanjiu1/database:      *)
(* the concurrent B+-tree index (b_plus_tree.cpp), the index iterator,     *)
(* the buffer pool manager, the LRU-K replacer and the extendible hash     *)
(* table.                                                                  *)
(*                                                                         *)
(* The B+-tree operations are modelled step by step: one step runs from    *)
(* one blocking latch acquisition (or one unprotected access to            *)
(* root_page_id_) to the next.  Every step is a function on a state record *)
(* (StepOf); the concurrent specification interleaves steps of several     *)
(* threads, the sequential specification runs an operation to completion.  *)
(***************************************************************************)
EXTENDS Integers, Sequences, FiniteSets, TLC

VARIABLES
  tree_pages,      \* page id -> B+-tree node stored in that page
  root_page_id_,   \* BPlusTree::root_page_id_
  tree_next_pid,   \* next page id handed out to the tree by NewPage
  tree_pin,        \* page id -> pin count of the page in the pool
  header_page,     \* the header page's record for index_name_, if there is one
  unpin_false,     \* an UnpinPage call made since the latest call began returned false
  latch,           \* page id -> reader/writer latch of the page
  thr,             \* thread -> local state of its running tree operation
  live,            \* key -> value of the successful Insert, 0 if not live
  phase,           \* round trip: "insert", then "remove"; "any" elsewhere
  calls,           \* concurrent run: the calls each thread has made, in order
  preloaded,       \* concurrent run: the keys inserted before the run started
  bpm,             \* the buffer pool manager instance with its page table and replacer
  last_dirty,      \* page id -> the data the page had when last unpinned with is_dirty
  replacer,        \* an LRUKReplacer called directly
  evicted,         \* what the last Evict on replacer returned
  hash_table,      \* an ExtendibleHashTable<int, int> called directly
  hash_model,      \* key -> value of the latest Insert into hash_table, 0 if none
  find_ret         \* the key and the result of the last Find on hash_table

(***************************************************************************)
(* Bounds of the model and configuration of the tree.                      *)
(***************************************************************************)
MaxKey == 5
MaxPid == 7
PidHeadroom == 4
leaf_max_size_ == 3
internal_max_size_ == 3

INVALID_PAGE_ID == -1

Keys == 1..MaxKey
ConcKeys == 1..(MaxKey + 1)
MaxCalls == 1
Pids == 1..(MaxPid + PidHeadroom)
Threads == {1, 2}
NoThread == 0

(***************************************************************************)
(* B+-tree pages.  items is the item array cut at GetSize(): a leaf holds  *)
(* <<key, value>> pairs, an internal page <<key, child page id>> pairs     *)
(* whose first key is the unused KeyType{} (0).                            *)
(***************************************************************************)
FreePage == [kind |-> "free", parent |-> 0, items |-> <<>>, next |-> 0]

LeafInit(parent_id) ==
  [kind |-> "leaf", parent |-> parent_id, items |-> <<>>, next |-> INVALID_PAGE_ID]

InternalInit(parent_id) ==
  [kind |-> "internal", parent |-> parent_id, items |-> <<>>, next |-> 0]

IsLeafPage(node) == node.kind = "leaf"
IsRootPage(node) == node.parent = INVALID_PAGE_ID
GetSize(node) == Len(node.items)
GetMaxSize(node) == IF IsLeafPage(node) THEN leaf_max_size_ ELSE internal_max_size_
GetMinSize(node) ==
  IF IsLeafPage(node) THEN (GetMaxSize(node) + 1) \div 2
  ELSE (GetMaxSize(node) + 2) \div 2
KeyAt(node, i) == node.items[i + 1][1]
ValueAt(node, i) == node.items[i + 1][2]

(***************************************************************************)
(* Sequence helpers for the item arrays and for the transaction page set.  *)
(***************************************************************************)
InsertAt(seq, pos, x) ==
  SubSeq(seq, 1, pos) \o <<x>> \o SubSeq(seq, pos + 1, Len(seq))

RemoveAt(seq, pos) ==
  SubSeq(seq, 1, pos) \o SubSeq(seq, pos + 2, Len(seq))

InSeq(seq, x) == \E i \in 1..Len(seq) : seq[i] = x

FirstIndexOf(seq, x) ==
  IF InSeq(seq, x) THEN CHOOSE i \in 1..Len(seq) :
                          seq[i] = x /\ \A j \in 1..(i - 1) : seq[j] # x
  ELSE 0

EraseFirst(seq, x) ==
  IF InSeq(seq, x) THEN RemoveAt(seq, FirstIndexOf(seq, x) - 1) ELSE seq

PopBackIf(seq, x) ==
  IF seq # <<>> /\ seq[Len(seq)] = x THEN SubSeq(seq, 1, Len(seq) - 1) ELSE seq

PopBackElseErase(seq, x) ==
  IF seq # <<>> /\ seq[Len(seq)] = x THEN SubSeq(seq, 1, Len(seq) - 1)
  ELSE EraseFirst(seq, x)

(***************************************************************************)
(* The pool as the tree sees it: NewPage, FetchPage, UnpinPage and         *)
(* DeletePage of a pool that never evicts a page of the tree.  s is the     *)
(* state record [pages, root, npid, pin, latch, thr, full, header,          *)
(* unpin_false]; while                                                     *)
(* s.full the pool has no frame left for a new page and NewPage returns    *)
(* nullptr.                                                                *)
(***************************************************************************)
FetchPage(s, p) ==
  [s EXCEPT !.pin[p] = @ + 1]

\* a page id that is not in the page table (INVALID_PAGE_ID): nothing happens;
\* a page whose pin count is 0: the pool returns false and changes nothing
UnpinPage(s, p) ==
  IF p = INVALID_PAGE_ID THEN s
  ELSE IF s.pin[p] > 0 THEN [s EXCEPT !.pin[p] = @ - 1]
  ELSE [s EXCEPT !.unpin_false = TRUE]

NewPage(s) ==
  [s EXCEPT !.pin[s.npid] = 1, !.pages[s.npid] = FreePage, !.npid = @ + 1]

DeletePage(s, p) ==
  IF p = INVALID_PAGE_ID \/ s.pin[p] > 0 THEN s ELSE [s EXCEPT !.pages[p] = FreePage]

(***************************************************************************)
(* Page latches (ReaderWriterLatch): one writer or any number of readers.  *)
(***************************************************************************)
NoLatch == [w |-> NoThread, r |-> {}]

CanWLatch(s, p) == s.latch[p].w = NoThread /\ s.latch[p].r = {}
CanRLatch(s, p) == s.latch[p].w = NoThread

WLatch(s, t, p) == [s EXCEPT !.latch[p].w = t]
RLatch(s, t, p) == [s EXCEPT !.latch[p].r = @ \cup {t}]
WUnlatch(s, p) == [s EXCEPT !.latch[p].w = NoThread]
RUnlatch(s, t, p) == [s EXCEPT !.latch[p].r = @ \ {t}]

OpLatch(s, t, p, op) == IF op = "SEARCH" THEN RLatch(s, t, p) ELSE WLatch(s, t, p)
OpUnlatch(s, t, p, op) == IF op = "SEARCH" THEN RUnlatch(s, t, p) ELSE WUnlatch(s, p)
CanOpLatch(s, p, op) == IF op = "SEARCH" THEN CanRLatch(s, p) ELSE CanWLatch(s, p)

(***************************************************************************)
(* Local state of a thread inside a tree operation.  page_set is the page  *)
(* set of the thread's Transaction object (txn = FALSE: the operation was  *)
(* called with transaction == nullptr); it outlives the operation.         *)
(***************************************************************************)
ThreadInit ==
  [pc |-> "idle", op |-> "none", key |-> 0, val |-> 0, txn |-> TRUE,
   page_set |-> <<>>, page |-> INVALID_PAGE_ID, child |-> INVALID_PAGE_ID,
   parent_id |-> INVALID_PAGE_ID, left_id |-> INVALID_PAGE_ID,
   right_id |-> INVALID_PAGE_ID, mkey |-> 0,
   cor_page |-> INVALID_PAGE_ID, sibling_id |-> INVALID_PAGE_ID,
   index_in_parent |-> -1, is_left_sibling |-> FALSE, page_in_set |-> FALSE,
   parent_locked |-> FALSE, need_reacquire |-> FALSE, root_in_set |-> FALSE,
   ret |-> "none", result |-> <<>>]

OperationType(op) ==
  IF op = "GetValue" THEN "SEARCH" ELSE IF op = "Insert" THEN "INSERT" ELSE "DELETE"

\* The operation returns `ret`: the locals die, the transaction's page set stays.
Return(s, t, ret, result) ==
  [s EXCEPT !.thr[t] = [ThreadInit EXCEPT !.op = s.thr[t].op, !.key = s.thr[t].key,
                                          !.val = s.thr[t].val, !.txn = s.thr[t].txn,
                                          !.page_set = s.thr[t].page_set,
                                          !.ret = ret, !.result = result]]

AddIntoPageSet(s, t, p) ==
  IF s.thr[t].txn THEN [s EXCEPT !.thr[t].page_set = Append(@, p)] ELSE s

\* if (!page_set->empty() && page_set->back() == page) page_set->pop_back();
PopPageIfBack(s, t, p) ==
  IF s.thr[t].txn THEN [s EXCEPT !.thr[t].page_set = PopBackIf(@, p)] ELSE s

\* for (it ...) if ((*it)->GetPageId() == id) { page_set->erase(it); break; }
ErasePage(s, t, p) ==
  IF s.thr[t].txn THEN [s EXCEPT !.thr[t].page_set = EraseFirst(@, p)] ELSE s

InPageSet(s, t, p) == s.thr[t].txn /\ InSeq(s.thr[t].page_set, p)

\* while (!page_set->empty()) { pop_back; latch release; UnpinPage; }
RECURSIVE ReleasePageSet(_, _, _)
ReleasePageSet(s, t, mode) ==
  IF ~s.thr[t].txn \/ s.thr[t].page_set = <<>> THEN s
  ELSE LET ps == s.thr[t].page_set
           p == ps[Len(ps)]
           s1 == [s EXCEPT !.thr[t].page_set = SubSeq(ps, 1, Len(ps) - 1)]
       IN ReleasePageSet(UnpinPage(OpUnlatch(s1, t, p, mode), p), t, mode)

(***************************************************************************)
(* Scans of a node.                                                        *)
(***************************************************************************)
\* FindLeafPage: index = 1; while (index < size && key >= KeyAt(index)) index++;
\* ScanIndex with the strict comparison key > KeyAt(index)
RECURSIVE ScanIndexStrict(_, _, _)
ScanIndexStrict(node, key, index) ==
  IF index < GetSize(node) /\ key > KeyAt(node, index)
  THEN ScanIndexStrict(node, key, index + 1)
  ELSE index

RECURSIVE ScanIndex(_, _, _)
ScanIndex(node, key, index) ==
  IF index < GetSize(node) /\ key >= KeyAt(node, index)
  THEN ScanIndex(node, key, index + 1) ELSE index

ChildFor(node, key, left_most) ==
  IF left_most THEN ValueAt(node, 0) ELSE ValueAt(node, ScanIndex(node, key, 1) - 1)

\* GetValue / Remove: the slot holding key, -1 when the scan passes it or ends.
RECURSIVE LeafScan(_, _, _)
LeafScan(leaf, key, i) ==
  IF i >= GetSize(leaf) THEN -1
  ELSE IF key = KeyAt(leaf, i) THEN i
  ELSE IF key < KeyAt(leaf, i) THEN -1
  ELSE LeafScan(leaf, key, i + 1)

\* Insert: [pos |-> insert_pos, dup |-> duplicate_found]
\* InsertPosScan without the test for an equal key
RECURSIVE InsertPosScanNoDuplicate(_, _, _)
InsertPosScanNoDuplicate(leaf, key, pos) ==
  IF pos >= GetSize(leaf) THEN [pos |-> pos, dup |-> FALSE]
  ELSE IF key <= KeyAt(leaf, pos) THEN [pos |-> pos, dup |-> FALSE]
  ELSE InsertPosScanNoDuplicate(leaf, key, pos + 1)

RECURSIVE InsertPosScan(_, _, _)
InsertPosScan(leaf, key, pos) ==
  IF pos >= GetSize(leaf) THEN [pos |-> pos, dup |-> FALSE]
  ELSE IF key = KeyAt(leaf, pos) THEN [pos |-> pos, dup |-> TRUE]
  ELSE IF key < KeyAt(leaf, pos) THEN [pos |-> pos, dup |-> FALSE]
  ELSE InsertPosScan(leaf, key, pos + 1)

\* ValueIndex that always answers the first slot
ValueIndexFirst(node, child) == 0

\* the first i with ValueAt(i) == child, -1 when there is none
ValueIndex(node, child) ==
  LET vals == [i \in 1..GetSize(node) |-> node.items[i][2]]
  IN FirstIndexOf(vals, child) - 1

(***************************************************************************)
(* GetValue, from the leaf FindLeafPage returned (read-latched).           *)
(***************************************************************************)
GetValueAtLeaf(s, t) ==
  LET me == s.thr[t]
      leaf == s.pages[me.page]
      i == LeafScan(leaf, me.key, 0)
      result == IF i >= 0 THEN <<ValueAt(leaf, i)>> ELSE <<>>
      s1 == UnpinPage(RUnlatch(s, t, me.page), me.page)
      s2 == ReleasePageSet(PopPageIfBack(s1, t, me.page), t, "SEARCH")
  IN Return(s2, t, IF i >= 0 THEN "true" ELSE "false", result)

(***************************************************************************)
(* Insert.                                                                 *)
(***************************************************************************)
SetParentPageId(s, p, parent_id) == [s EXCEPT !.pages[p].parent = parent_id]

(***************************************************************************)
(* The header page: header is [found, root_id], the record of index_name_. *)
(***************************************************************************)
\* HeaderPage::InsertRecord(name, root_id): false if the name has a record
InsertRecord(header, root_id) ==
  IF header.found THEN header ELSE [found |-> TRUE, root_id |-> root_id]

\* HeaderPage::UpdateRecord(name, root_id): false if the name has no record
UpdateRecord(header, root_id) ==
  IF header.found THEN [header EXCEPT !.root_id = root_id] ELSE header

UpdateRootPageId(s, insert_record) ==
  IF insert_record # 0
  THEN [s EXCEPT !.header = InsertRecord(@, s.root)]
  ELSE [s EXCEPT !.header = UpdateRecord(@, s.root)]

\* Insert's final clean-up of the page set (is_dirty = true), then return true.
InsertCleanup(s, t) == Return(ReleasePageSet(s, t, "INSERT"), t, "true", <<>>)

\* InsertIntoParent with parent_id == INVALID_PAGE_ID: a new root above left and right.
InsertIntoNewRoot(s, t) ==
  LET me == s.thr[t]
      new_root_id == s.npid
      s1 == [NewPage(s) EXCEPT !.pages[new_root_id] =
               [InternalInit(INVALID_PAGE_ID) EXCEPT
                  !.items = << <<0, me.left_id>>, <<me.mkey, me.right_id>> >>]]
      left_in_set == InPageSet(s, t, me.left_id)
      right_in_set == InPageSet(s, t, me.right_id)
      s2 == IF left_in_set THEN s1 ELSE FetchPage(s1, me.left_id)
      s3 == IF right_in_set THEN s2 ELSE FetchPage(s2, me.right_id)
      s4 == SetParentPageId(SetParentPageId(s3, me.left_id, new_root_id),
                            me.right_id, new_root_id)
      s5 == UnpinPage(UpdateRootPageId([s4 EXCEPT !.root = new_root_id], 0), new_root_id)
      s6 == IF left_in_set
            THEN UnpinPage(ErasePage(WUnlatch(s5, me.left_id), t, me.left_id), me.left_id)
            ELSE UnpinPage(s5, me.left_id)
      s7 == IF right_in_set
            THEN UnpinPage(ErasePage(WUnlatch(s6, me.right_id), t, me.right_id), me.right_id)
            ELSE UnpinPage(s6, me.right_id)
  IN IF s.full THEN s ELSE s7

\* new_internal: slot 0 takes the child at split_index, the items after it follow.
SplitInternalRight(items, split_index) ==
  << <<0, items[split_index + 1][2]>> >> \o SubSeq(items, split_index + 2, Len(items))

RECURSIVE AdoptChildren(_, _, _, _)
AdoptChildren(s, node, i, new_page_id) ==
  IF i >= Len(node) THEN s
  ELSE LET child_id == node[i + 1][2]
       IN AdoptChildren(
            UnpinPage(SetParentPageId(FetchPage(s, child_id), child_id, new_page_id),
                      child_id),
            node, i + 1, new_page_id)

\* InsertIntoParent into an existing parent that this thread holds write-latched.
InsertIntoExistingParent(s, t) ==
  LET me == s.thr[t]
      parent_id == me.parent_id
      parent_node == s.pages[parent_id]
      found == ValueIndex(parent_node, me.left_id)
      insert_pos == IF found >= 0 THEN found + 1 ELSE 0
      items1 == InsertAt(parent_node.items, insert_pos, <<me.mkey, me.right_id>>)
      s1 == [s EXCEPT !.pages[parent_id].items = items1]
      right_in_set == InPageSet(s, t, me.right_id)
      s2 == IF right_in_set THEN SetParentPageId(s1, me.right_id, parent_id)
            ELSE UnpinPage(SetParentPageId(FetchPage(s1, me.right_id),
                                           me.right_id, parent_id), me.right_id)
      need_split == Len(items1) > GetMaxSize(parent_node)
      release(x) == IF me.parent_locked THEN x
                    ELSE PopPageIfBack(UnpinPage(WUnlatch(x, parent_id), parent_id),
                                       t, parent_id)
  IN IF need_split /\ s.full
     THEN InsertCleanup(IF me.parent_locked THEN UnpinPage(s2, parent_id)
                        ELSE UnpinPage(PopPageIfBack(WUnlatch(s2, parent_id), t, parent_id),
                                       parent_id), t)
     ELSE IF need_split
     THEN LET new_page_id == s2.npid
              split_index == (Len(items1) + 1) \div 2
              middle_key == items1[split_index + 1][1]
              right_items == SplitInternalRight(items1, split_index)
              s3 == [NewPage(s2) EXCEPT
                       !.pages[new_page_id] =
                          [InternalInit(parent_node.parent) EXCEPT !.items = right_items],
                       !.pages[parent_id].items = SubSeq(items1, 1, split_index)]
              s4 == AdoptChildren(s3, right_items, 0, new_page_id)
              s5 == release(UnpinPage(s4, new_page_id))
          IN [s5 EXCEPT !.thr[t].pc = "iip",
                        !.thr[t].parent_id = s5.pages[parent_id].parent,
                        !.thr[t].left_id = parent_id,
                        !.thr[t].mkey = middle_key,
                        !.thr[t].right_id = new_page_id,
                        !.thr[t].parent_locked = FALSE]
     ELSE InsertCleanup(release(s2), t)

\* Entry of InsertIntoParent(parent_id, left_id, key, right_id).
InsertIntoParent(s, t) ==
  LET me == s.thr[t]
  IN IF me.parent_id = INVALID_PAGE_ID
     THEN InsertCleanup(InsertIntoNewRoot(s, t), t)
     ELSE IF InPageSet(s, t, me.parent_id)
     THEN InsertIntoExistingParent([s EXCEPT !.thr[t].parent_locked = TRUE], t)
     ELSE [FetchPage(s, me.parent_id) EXCEPT !.thr[t].pc = "iip_latch_parent",
                                             !.thr[t].parent_locked = FALSE]

InsertLatchParent(s, t) ==
  LET p == s.thr[t].parent_id
  IN InsertIntoExistingParent(AddIntoPageSet(WLatch(s, t, p), t, p), t)

\* Insert's duplicate path without its releases
InsertDuplicateKeepsLatches(s, t) == Return(s, t, "false", <<>>)

\* The duplicate path: release everything, return false.
InsertDuplicate(s, t) ==
  LET page == s.thr[t].page
      s1 == IF s.thr[t].txn
            THEN [s EXCEPT !.thr[t].page_set = PopBackElseErase(@, page)] ELSE s
      s2 == UnpinPage(WUnlatch(s1, page), page)
  IN Return(ReleasePageSet(s2, t, "INSERT"), t, "false", <<>>)

\* The leaf is full after the insertion: move the upper half to a new leaf.
InsertSplitLeaf(s, t, items1) ==
  LET me == s.thr[t]
      page == me.page
      leaf_node == s.pages[page]
      new_page_id == s.npid
      split_index == Len(items1) \div 2
      s1 == [NewPage(s) EXCEPT
               !.pages[new_page_id] =
                  [LeafInit(leaf_node.parent) EXCEPT
                     !.items = SubSeq(items1, split_index + 1, Len(items1)),
                     !.next = leaf_node.next],
               !.pages[page].items = SubSeq(items1, 1, split_index),
               !.pages[page].next = new_page_id]
      middle_key == items1[split_index + 1][1]
      s2 == PopPageIfBack(s1, t, page)
      s3 == UnpinPage(UnpinPage(WUnlatch(s2, page), page), new_page_id)
      placed == [s EXCEPT !.pages[page].items = items1]
      failed == PopPageIfBack(UnpinPage(WUnlatch(placed, page), page), t, page)
  IN IF s.full THEN Return(ReleasePageSet(failed, t, "INSERT"), t, "false", <<>>)
     ELSE
     [s3 EXCEPT !.thr[t].pc = "iip",
                !.thr[t].parent_id = leaf_node.parent,
                !.thr[t].left_id = page,
                !.thr[t].mkey = middle_key,
                !.thr[t].right_id = new_page_id]

\* Insert from the write-latched leaf it settled on (me.page).
InsertIntoLeaf(s, t) ==
  LET me == s.thr[t]
      page == me.page
      leaf_node == s.pages[page]
      scan == InsertPosScan(leaf_node, me.key, 0)
      items1 == InsertAt(leaf_node.items, scan.pos, <<me.key, me.val>>)
  IN IF scan.dup THEN InsertDuplicate(s, t)
     ELSE IF Len(items1) >= GetMaxSize(leaf_node)
     THEN InsertSplitLeaf(s, t, items1)
     ELSE LET s1 == [s EXCEPT !.pages[page].items = items1]
              s2 == PopPageIfBack(UnpinPage(WUnlatch(s1, page), page), t, page)
          IN InsertCleanup(s2, t)

\* Insert at the leaf FindLeafPage returned: does the key belong to the successor?
InsertAtLeaf(s, t) ==
  LET me == s.thr[t]
      leaf_node == s.pages[me.page]
      scan == InsertPosScan(leaf_node, me.key, 0)
      size == GetSize(leaf_node)
  IN IF scan.pos >= size /\ size > 0 /\ me.key > KeyAt(leaf_node, size - 1)
        /\ leaf_node.next # INVALID_PAGE_ID
     THEN [FetchPage(s, leaf_node.next) EXCEPT !.thr[t].pc = "ins_latch_next",
                                               !.thr[t].child = leaf_node.next]
     ELSE InsertIntoLeaf(s, t)

\* next_page->WLatch() acquired: hand off to the successor or let it go.
InsertLatchNext(s, t) ==
  LET me == s.thr[t]
      next_id == me.child
      s1 == WLatch(s, t, next_id)
      next_leaf == s.pages[next_id]
  IN IF GetSize(next_leaf) > 0 /\ me.key >= KeyAt(next_leaf, 0)
     THEN LET s2 == UnpinPage(WUnlatch(s1, me.page), me.page)
              s3 == AddIntoPageSet(PopPageIfBack(s2, t, me.page), t, next_id)
          IN InsertIntoLeaf([s3 EXCEPT !.thr[t].page = next_id,
                                       !.thr[t].child = INVALID_PAGE_ID], t)
     ELSE InsertIntoLeaf([UnpinPage(WUnlatch(s1, next_id), next_id)
                            EXCEPT !.thr[t].child = INVALID_PAGE_ID], t)

\* Insert, first lines: the tree looks empty, build a root leaf.
InsertStart(s, t) ==
  LET me == s.thr[t]
      new_page_id == s.npid
  IN IF s.root = INVALID_PAGE_ID /\ s.full THEN Return(s, t, "false", <<>>)
     ELSE IF s.root = INVALID_PAGE_ID
     THEN [NewPage(s) EXCEPT
             !.pages[new_page_id] =
                [LeafInit(INVALID_PAGE_ID) EXCEPT !.items = << <<me.key, me.val>> >>],
             !.thr[t].pc = "ins_root_check",
             !.thr[t].child = new_page_id]
     ELSE [s EXCEPT !.thr[t].pc = "find_root"]

\* the double check of root_page_id_
InsertRootCheck(s, t) ==
  LET new_page_id == s.thr[t].child
  IN IF s.root = INVALID_PAGE_ID
     THEN [s EXCEPT !.thr[t].pc = "ins_root_set"]
     ELSE [DeletePage(UnpinPage(s, new_page_id), new_page_id)
             EXCEPT !.thr[t].pc = "find_root", !.thr[t].child = INVALID_PAGE_ID]

InsertRootSet(s, t) ==
  LET new_page_id == s.thr[t].child
  IN Return(UnpinPage(UpdateRootPageId([s EXCEPT !.root = new_page_id], 1), new_page_id),
            t, "true", <<>>)

(***************************************************************************)
(* CoalesceOrRedistribute(node, page_id): cor_page is page_id.             *)
(***************************************************************************)
\* back in Remove: the inspection of the root reads root_page_id_ next
CoalesceReturn(s, t) == [s EXCEPT !.thr[t].pc = "rm_root"]

\* release of the parent on the early returns (index not found, no sibling, ...)
CoalesceGiveUp(s, t) ==
  LET me == s.thr[t]
      s1 == IF me.parent_locked THEN s
            ELSE PopPageIfBack(WUnlatch(s, me.parent_id), t, me.parent_id)
      s2 == IF me.page_in_set THEN s1 ELSE WUnlatch(s1, me.cor_page)
      s3 == UnpinPage(s2, me.cor_page)
      s4 == IF me.parent_locked THEN s3 ELSE UnpinPage(s3, me.parent_id)
  IN CoalesceReturn(s4, t)

\* release of the current page after redistribute / merge / the internal case
CoalesceReleaseCurrent(s, t) ==
  LET me == s.thr[t]
  IN IF me.need_reacquire THEN UnpinPage(WUnlatch(s, me.cor_page), me.cor_page)
     ELSE LET s1 == IF me.page_in_set THEN ErasePage(s, t, me.cor_page) ELSE s
          IN UnpinPage(WUnlatch(s1, me.cor_page), me.cor_page)

Redistribute(s, t) ==
  LET me == s.thr[t]
      page_id == me.cor_page
      leaf == s.pages[page_id].items
      sib == s.pages[me.sibling_id].items
      s1 == IF me.is_left_sibling
            THEN [s EXCEPT !.pages[page_id].items = <<sib[Len(sib)]>> \o leaf,
                           !.pages[me.sibling_id].items = SubSeq(sib, 1, Len(sib) - 1),
                           !.pages[me.parent_id].items[me.index_in_parent + 1][1] =
                              sib[Len(sib)][1]]
            ELSE [s EXCEPT !.pages[page_id].items = Append(leaf, sib[1]),
                           !.pages[me.sibling_id].items = Tail(sib),
                           !.pages[me.parent_id].items[me.index_in_parent + 2][1] =
                              sib[2][1]]
      s2 == CoalesceReleaseCurrent(s1, t)
      s3 == UnpinPage(WUnlatch(s2, me.sibling_id), me.sibling_id)
      s4 == IF me.parent_locked THEN s3
            ELSE UnpinPage(PopPageIfBack(WUnlatch(s3, me.parent_id), t, me.parent_id),
                           me.parent_id)
  IN CoalesceReturn(s4, t)

Coalesce(s, t) ==
  LET me == s.thr[t]
      page_id == me.cor_page
      parent_id == me.parent_id
      leaf_node == s.pages[page_id]
      sibling_leaf == s.pages[me.sibling_id]
      key_index == IF me.is_left_sibling THEN me.index_in_parent
                   ELSE me.index_in_parent + 1
      page_to_delete == IF me.is_left_sibling THEN page_id ELSE me.sibling_id
      s1 == IF me.is_left_sibling
            THEN [s EXCEPT !.pages[me.sibling_id].items = @ \o leaf_node.items,
                           !.pages[me.sibling_id].next = leaf_node.next]
            ELSE [s EXCEPT !.pages[page_id].items = @ \o sibling_leaf.items,
                           !.pages[page_id].next = sibling_leaf.next]
      s2 == [s1 EXCEPT !.pages[parent_id].items = RemoveAt(@, key_index)]
      s3 == CoalesceReleaseCurrent(s2, t)
      s4 == DeletePage(UnpinPage(WUnlatch(s3, me.sibling_id), me.sibling_id),
                       page_to_delete)
      parent_node == s4.pages[parent_id]
      parent_needs_merge == GetSize(parent_node) < GetMinSize(parent_node)
                            /\ ~IsRootPage(parent_node)
      s5 == IF me.parent_locked
            THEN UnpinPage(ErasePage(WUnlatch(s4, parent_id), t, parent_id), parent_id)
            ELSE UnpinPage(PopPageIfBack(WUnlatch(s4, parent_id), t, parent_id),
                           parent_id)
  IN IF parent_needs_merge
     THEN [s5 EXCEPT !.thr[t].pc = "cor", !.thr[t].cor_page = parent_id]
     ELSE CoalesceReturn(s5, t)

\* internal nodes: nothing is moved, the pages are released
CoalesceInternal(s, t) ==
  LET me == s.thr[t]
      parent_id == me.parent_id
      s1 == CoalesceReleaseCurrent(s, t)
      s2 == UnpinPage(WUnlatch(s1, me.sibling_id), me.sibling_id)
      s3 == IF me.parent_locked
            THEN UnpinPage(ErasePage(WUnlatch(s2, parent_id), t, parent_id), parent_id)
            ELSE UnpinPage(PopPageIfBack(WUnlatch(s2, parent_id), t, parent_id),
                           parent_id)
  IN CoalesceReturn(s3, t)

\* current page and sibling are both write-latched
CoalesceBody(s, t) ==
  LET me == s.thr[t]
      current_node == s.pages[me.cor_page]
      sibling_node == s.pages[me.sibling_id]
  IN IF IsLeafPage(current_node) /\ IsLeafPage(sibling_node)
     THEN IF GetSize(sibling_node) > GetMinSize(sibling_node)
          THEN Redistribute(s, t) ELSE Coalesce(s, t)
     ELSE CoalesceInternal(s, t)

\* the parent is write-latched: pick the sibling, fetch it
CoalesceWithParent(s, t) ==
  LET me == s.thr[t]
      page_id == me.cor_page
      parent_node == s.pages[me.parent_id]
      index_in_parent == ValueIndex(parent_node, page_id)
      has_left == index_in_parent > 0
      has_right == index_in_parent < GetSize(parent_node) - 1
      sibling_id == IF has_left THEN ValueAt(parent_node, index_in_parent - 1)
                    ELSE IF has_right THEN ValueAt(parent_node, index_in_parent + 1)
                    ELSE INVALID_PAGE_ID
      need_reacquire == sibling_id < page_id
  IN IF index_in_parent = -1 \/ sibling_id = INVALID_PAGE_ID
     THEN CoalesceGiveUp(s, t)
     ELSE LET s1 == FetchPage(s, sibling_id)
              s2 == IF need_reacquire
                    THEN UnpinPage(WUnlatch(
                           IF me.page_in_set THEN ErasePage(s1, t, page_id) ELSE s1,
                           page_id), page_id)
                    ELSE s1
          IN [s2 EXCEPT !.thr[t].pc = "cor_latch_sib",
                        !.thr[t].index_in_parent = index_in_parent,
                        !.thr[t].sibling_id = sibling_id,
                        !.thr[t].is_left_sibling = has_left,
                        !.thr[t].need_reacquire = need_reacquire]

\* the current page is write-latched: root check, then the parent
CoalesceWithCurrent(s, t) ==
  LET me == s.thr[t]
      page_id == me.cor_page
      current_node == s.pages[page_id]
      parent_id == current_node.parent
  IN IF IsRootPage(current_node)
     THEN CoalesceReturn(
            UnpinPage(IF me.page_in_set THEN s ELSE WUnlatch(s, page_id), page_id), t)
     ELSE IF InPageSet(s, t, parent_id)
     THEN CoalesceWithParent([s EXCEPT !.thr[t].parent_id = parent_id,
                                       !.thr[t].parent_locked = TRUE], t)
     ELSE [FetchPage(s, parent_id) EXCEPT !.thr[t].pc = "cor_latch_parent",
                                          !.thr[t].parent_id = parent_id,
                                          !.thr[t].parent_locked = FALSE]

\* Entry of CoalesceOrRedistribute.
CoalesceOrRedistribute(s, t) ==
  LET me == s.thr[t]
  IN IF InPageSet(s, t, me.cor_page)
     THEN CoalesceWithCurrent([s EXCEPT !.thr[t].page_in_set = TRUE], t)
     ELSE [FetchPage(s, me.cor_page) EXCEPT !.thr[t].pc = "cor_latch_cur",
                                            !.thr[t].page_in_set = FALSE]

CoalesceLatchCurrent(s, t) == CoalesceWithCurrent(WLatch(s, t, s.thr[t].cor_page), t)

CoalesceLatchParent(s, t) ==
  LET p == s.thr[t].parent_id
  IN CoalesceWithParent(AddIntoPageSet(WLatch(s, t, p), t, p), t)

CoalesceLatchSibling(s, t) ==
  LET me == s.thr[t]
      s1 == WLatch(s, t, me.sibling_id)
  IN IF me.need_reacquire
     THEN [FetchPage(s1, me.cor_page) EXCEPT !.thr[t].pc = "cor_latch_cur2"]
     ELSE CoalesceBody(s1, t)

CoalesceRelatchCurrent(s, t) == CoalesceBody(WLatch(s, t, s.thr[t].cor_page), t)

(***************************************************************************)
(* Remove.                                                                 *)
(***************************************************************************)
\* Remove's final clean-up of the page set, then return.
RemoveCleanup(s, t) == Return(ReleasePageSet(s, t, "DELETE"), t, "void", <<>>)

\* the root page (me.page) is write-latched: collapse, empty or keep the root
RemoveInspectRoot(s, t) ==
  LET me == s.thr[t]
      root_page == me.page
      root_node == s.pages[root_page]
  IN IF ~IsLeafPage(root_node) /\ GetSize(root_node) = 0
     THEN IF root_node.kind = "free"
          THEN [s EXCEPT !.thr[t].pc = "corrupt"]
          ELSE [FetchPage(s, ValueAt(root_node, 0))
                  EXCEPT !.thr[t].pc = "rm_latch_new_root",
                         !.thr[t].child = ValueAt(root_node, 0)]
     ELSE IF IsLeafPage(root_node) /\ GetSize(root_node) = 0
     THEN LET old_root_id == s.root
              s1 == UpdateRootPageId([s EXCEPT !.root = INVALID_PAGE_ID], 0)
              s2 == IF me.root_in_set THEN ErasePage(s1, t, old_root_id) ELSE s1
              s3 == DeletePage(UnpinPage(WUnlatch(s2, root_page), old_root_id),
                               old_root_id)
          IN RemoveCleanup(s3, t)
     ELSE LET s1 == WUnlatch(s, root_page)
              s2 == IF me.root_in_set THEN ErasePage(s1, t, s.root) ELSE s1
          IN RemoveCleanup(UnpinPage(s2, s.root), t)

\* the single child of the old root (me.child) is write-latched: promote it
RemovePromoteChild(s, t) ==
  LET me == s.thr[t]
      new_root_id == me.child
      old_root_id == me.page
      s1 == UnpinPage(WUnlatch(SetParentPageId(WLatch(s, t, new_root_id), new_root_id,
                                               INVALID_PAGE_ID), new_root_id),
                      new_root_id)
      s2 == UpdateRootPageId([s1 EXCEPT !.root = new_root_id], 0)
      s3 == IF me.root_in_set THEN ErasePage(s2, t, old_root_id) ELSE s2
      s4 == DeletePage(UnpinPage(WUnlatch(s3, old_root_id), old_root_id), old_root_id)
  IN RemoveCleanup(s4, t)

\* if (root_page_id_ != INVALID_PAGE_ID): find the root in the page set or fetch it
RemoveRootCheck(s, t) ==
  IF s.root = INVALID_PAGE_ID THEN RemoveCleanup(s, t)
  ELSE IF InPageSet(s, t, s.root)
  THEN RemoveInspectRoot([s EXCEPT !.thr[t].page = s.root,
                                   !.thr[t].root_in_set = TRUE], t)
  ELSE [FetchPage(s, s.root) EXCEPT !.thr[t].pc = "rm_latch_root",
                                    !.thr[t].page = s.root,
                                    !.thr[t].root_in_set = FALSE]

RemoveLatchRoot(s, t) == RemoveInspectRoot(WLatch(s, t, s.thr[t].page), t)

\* Remove from the write-latched leaf FindLeafPage returned.
RemoveAtLeaf(s, t) ==
  LET me == s.thr[t]
      page == me.page
      leaf_node == s.pages[page]
      delete_pos == LeafScan(leaf_node, me.key, 0)
  IN IF delete_pos = -1
     THEN RemoveCleanup(PopPageIfBack(UnpinPage(WUnlatch(s, page), page), t, page), t)
     ELSE LET s1 == [s EXCEPT !.pages[page].items = RemoveAt(@, delete_pos)]
              node1 == s1.pages[page]
              need_merge == GetSize(node1) < GetMinSize(node1) /\ ~IsRootPage(node1)
          IN IF need_merge
             THEN CoalesceOrRedistribute([s1 EXCEPT !.thr[t].cor_page = page], t)
             ELSE [PopPageIfBack(UnpinPage(WUnlatch(s1, page), page), t, page)
                     EXCEPT !.thr[t].pc = "rm_root"]

(***************************************************************************)
(* FindLeafPage with latch crabbing.                                       *)
(***************************************************************************)
IsSafe(node, op) ==
  IF IsRootPage(node) /\ op = "SEARCH" THEN TRUE
  ELSE IF IsRootPage(node) /\ op = "INSERT" THEN GetSize(node) < GetMaxSize(node)
  ELSE IF IsRootPage(node) /\ op = "DELETE" THEN GetSize(node) > 1
  ELSE IF op = "SEARCH" THEN TRUE
  ELSE IF op = "INSERT" THEN GetSize(node) < GetMaxSize(node)
  ELSE IF op = "DELETE" THEN GetSize(node) > GetMinSize(node)
  ELSE FALSE

\* FindLeafPage returned the leaf me.page: the caller goes on in the same step
AtLeaf(s, t) ==
  LET op == s.thr[t].op
  IN IF op = "GetValue" THEN GetValueAtLeaf(s, t)
     ELSE IF op = "Insert" THEN InsertAtLeaf(s, t)
     ELSE RemoveAtLeaf(s, t)

\* FindLeafPage returned nullptr: GetValue and Insert return false, Remove returns
FindFailed(s, t) ==
  Return(s, t, IF s.thr[t].op = "Remove" THEN "void" ELSE "false", <<>>)

\* the loop head: me.page is latched; stop at a leaf or fetch the child
FindDescend(s, t) ==
  LET me == s.thr[t]
      node == s.pages[me.page]
  IN IF IsLeafPage(node) THEN AtLeaf(s, t)
     ELSE IF GetSize(node) = 0 THEN [s EXCEPT !.thr[t].pc = "corrupt"]
     ELSE LET next_page_id == ChildFor(node, me.key, FALSE)
          IN [FetchPage(s, next_page_id) EXCEPT !.thr[t].pc = "find_latch_child",
                                                !.thr[t].child = next_page_id]

\* root_id = root_page_id_; FetchPage(root_id)
FindRoot(s, t) ==
  IF s.root = INVALID_PAGE_ID THEN FindFailed(s, t)
  ELSE [FetchPage(s, s.root) EXCEPT !.thr[t].pc = "find_latch_root",
                                    !.thr[t].page = s.root]

\* the root page is latched and put into the page set
FindLatchedRoot(s, t) ==
  LET me == s.thr[t]
      mode == OperationType(me.op)
  IN AddIntoPageSet(OpLatch(s, t, me.page, mode), t, me.page)

FindLatchRoot(s, t) == FindDescend(FindLatchedRoot(s, t), t)

\* child_page->RLatch() / WLatch(), with the latch on the current page held
FindLatchedChild(s, t) ==
  OpLatch(s, t, s.thr[t].child, OperationType(s.thr[t].op))

\* a descent that keeps the latch and the pin of the current page in every mode
FindMoveToChildKeepsParent(s, t) ==
  LET me == s.thr[t]
      s1 == AddIntoPageSet(FindLatchedChild(s, t), t, me.child)
  IN [s1 EXCEPT !.thr[t].page = me.child, !.thr[t].child = INVALID_PAGE_ID]

\* the rest of the loop body: release the current page if the child is safe,
\* add the child to the page set, move down to the child
FindMoveToChild(s, t) ==
  LET me == s.thr[t]
      mode == OperationType(me.op)
      s1 == FindLatchedChild(s, t)
      is_safe == IsSafe(s1.pages[me.child], mode)
      s2 == IF mode = "SEARCH" \/ is_safe
            THEN LET a == IF me.txn
                          THEN [s1 EXCEPT !.thr[t].page_set = PopBackElseErase(@, me.page)]
                          ELSE s1
                 IN UnpinPage(OpUnlatch(a, t, me.page, mode), me.page)
            ELSE s1
      s3 == AddIntoPageSet(s2, t, me.child)
  IN [s3 EXCEPT !.thr[t].page = me.child, !.thr[t].child = INVALID_PAGE_ID]

FindLatchChild(s, t) == FindDescend(FindMoveToChild(s, t), t)

(***************************************************************************)
(* One step of thread t, and when it can be taken.                         *)
(***************************************************************************)
LatchWanted(s, t) ==
  LET me == s.thr[t]
  IN CASE me.pc \in {"find_latch_root", "rm_latch_root"} -> me.page
       [] me.pc \in {"find_latch_child", "ins_latch_next", "rm_latch_new_root"} -> me.child
       [] me.pc \in {"iip_latch_parent", "cor_latch_parent"} -> me.parent_id
       [] me.pc \in {"cor_latch_cur", "cor_latch_cur2"} -> me.cor_page
       [] me.pc = "cor_latch_sib" -> me.sibling_id
       [] OTHER -> INVALID_PAGE_ID

Running(s, t) == s.thr[t].pc \notin {"idle", "corrupt"}

Blocked(s, t) ==
  /\ LatchWanted(s, t) # INVALID_PAGE_ID
  /\ ~CanOpLatch(s, LatchWanted(s, t), OperationType(s.thr[t].op))

CanStep(s, t) == Running(s, t) /\ ~Blocked(s, t)

StepOf(s, t) ==
  LET pc == s.thr[t].pc
  IN CASE pc = "ins_start" -> InsertStart(s, t)
       [] pc = "ins_root_check" -> InsertRootCheck(s, t)
       [] pc = "ins_root_set" -> InsertRootSet(s, t)
       [] pc = "find_root" -> FindRoot(s, t)
       [] pc = "find_latch_root" -> FindLatchRoot(s, t)
       [] pc = "find_latch_child" -> FindLatchChild(s, t)
       [] pc = "ins_latch_next" -> InsertLatchNext(s, t)
       [] pc = "iip" -> InsertIntoParent(s, t)
       [] pc = "iip_latch_parent" -> InsertLatchParent(s, t)
       [] pc = "cor" -> CoalesceOrRedistribute(s, t)
       [] pc = "cor_latch_cur" -> CoalesceLatchCurrent(s, t)
       [] pc = "cor_latch_parent" -> CoalesceLatchParent(s, t)
       [] pc = "cor_latch_sib" -> CoalesceLatchSibling(s, t)
       [] pc = "cor_latch_cur2" -> CoalesceRelatchCurrent(s, t)
       [] pc = "rm_root" -> RemoveRootCheck(s, t)
       [] pc = "rm_latch_root" -> RemoveLatchRoot(s, t)
       [] pc = "rm_latch_new_root" -> RemovePromoteChild(s, t)

\* the call: the thread's locals are set up, the first step follows
Call(s, t, op, key, val) ==
  [s EXCEPT !.unpin_false = FALSE,
            !.thr[t] = [ThreadInit EXCEPT !.op = op, !.key = key, !.val = val,
                                          !.txn = s.thr[t].txn,
                                          !.page_set = s.thr[t].page_set,
                                          !.pc = IF op = "Insert" THEN "ins_start"
                                                 ELSE "find_root"]]

\* single-threaded execution: the operation runs until it returns, or hangs
RECURSIVE Run(_, _)
Run(s, t) == IF CanStep(s, t) THEN Run(StepOf(s, t), t) ELSE s

(***************************************************************************)
(* ExtendibleHashTable<page_id_t, frame_id_t>: the page table.  A table is *)
(* [global_depth_, num_buckets_, dir_, buckets]; dir_ holds, per directory *)
(* slot, the index in buckets of the bucket the slot points to.            *)
(***************************************************************************)
pool_size_ == 2
k_ == 2
bucket_size_ == 1
MaxPageId == 3
MaxTimestamp == 5
MaxPin == 2
MaxData == 1
ReplacerFrames == 3
HashBucketSize == 2
MaxHashKey == 5
MaxHashValue == 2

HashKeys == 0..MaxHashKey
HashValues == 1..MaxHashValue

Frames == 0..(pool_size_ - 1)
PageIds == 0..(MaxPageId - 1)

Bucket(array_size, depth) == [size_ |-> array_size, depth_ |-> depth, list_ |-> <<>>]

ExtendibleHashTable(bucket_size) ==
  [bucket_size_ |-> bucket_size, global_depth_ |-> 0, num_buckets_ |-> 1,
   dir_ |-> <<1>>, buckets |-> <<Bucket(bucket_size, 0)>>]

\* std::hash<int> is the identity; the mask keeps the low global_depth_ bits
IndexOf(ht, key) == key % (2 ^ ht.global_depth_)

RECURSIVE ListIndex(_, _, _)
ListIndex(list, key, i) ==
  IF i > Len(list) THEN 0
  ELSE IF list[i][1] = key THEN i
  ELSE ListIndex(list, key, i + 1)

BucketFind(bucket, key) ==
  LET i == ListIndex(bucket.list_, key, 1)
  IN IF i = 0 THEN [found |-> FALSE, value |-> -1]
     ELSE [found |-> TRUE, value |-> bucket.list_[i][2]]

BucketRemove(bucket, key) ==
  LET i == ListIndex(bucket.list_, key, 1)
  IN IF i = 0 THEN bucket
     ELSE [bucket EXCEPT !.list_ = RemoveAt(@, i - 1)]

\* Bucket::Insert that tests IsFull before it looks for the key
BucketInsertFullFirst(bucket, key, value) ==
  LET i == ListIndex(bucket.list_, key, 1)
  IN IF Len(bucket.list_) >= bucket.size_ THEN [ok |-> FALSE, bucket |-> bucket]
     ELSE IF i # 0 THEN [ok |-> TRUE, bucket |-> [bucket EXCEPT !.list_[i][2] = value]]
     ELSE [ok |-> TRUE, bucket |-> [bucket EXCEPT !.list_ = Append(@, <<key, value>>)]]

BucketInsert(bucket, key, value) ==
  LET i == ListIndex(bucket.list_, key, 1)
  IN IF i # 0 THEN [ok |-> TRUE, bucket |-> [bucket EXCEPT !.list_[i][2] = value]]
     ELSE IF Len(bucket.list_) >= bucket.size_ THEN [ok |-> FALSE, bucket |-> bucket]
     ELSE [ok |-> TRUE, bucket |-> [bucket EXCEPT !.list_ = Append(@, <<key, value>>)]]

HashFind(ht, key) == BucketFind(ht.buckets[ht.dir_[IndexOf(ht, key) + 1]], key)

HashRemove(ht, key) ==
  LET b == ht.dir_[IndexOf(ht, key) + 1]
  IN [ht EXCEPT !.buckets[b] = BucketRemove(@, key)]

GetGlobalDepth(ht) == ht.global_depth_

GetLocalDepth(ht, dir_index) == ht.buckets[ht.dir_[dir_index + 1]].depth_

GetNumBuckets(ht) == ht.num_buckets_

BitSet(hash_value, split_mask) == (hash_value \div split_mask) % 2 = 1

\* RedistributeBucket without num_buckets_++
RedistributeBucketNoCount(ht, b) ==
  LET local_depth == ht.buckets[b].depth_ + 1
      new_bucket == Len(ht.buckets) + 1
      split_mask == 2 ^ (local_depth - 1)
      items_to_redistribute == ht.buckets[b].list_
      Moves(item) == (item[1] \div split_mask) % 2 = 1
      Stays(item) == (item[1] \div split_mask) % 2 = 0
  IN [ht EXCEPT
        !.buckets = Append([@ EXCEPT ![b] = [ht.buckets[b] EXCEPT
                                               !.depth_ = local_depth,
                                               !.list_ = SelectSeq(items_to_redistribute, Stays)]],
                           [Bucket(ht.bucket_size_, local_depth) EXCEPT
                              !.list_ = SelectSeq(items_to_redistribute, Moves)]),
        !.dir_ = [i \in 1..Len(@) |->
                    IF @[i] = b /\ ((i - 1) \div split_mask) % 2 = 1
                    THEN new_bucket ELSE @[i]]]

RedistributeBucket(ht, b) ==
  LET local_depth == ht.buckets[b].depth_ + 1
      new_bucket == Len(ht.buckets) + 1
      split_mask == 2 ^ (local_depth - 1)
      items_to_redistribute == ht.buckets[b].list_
      Moves(item) == BitSet(item[1], split_mask)
      Stays(item) == ~BitSet(item[1], split_mask)
  IN [ht EXCEPT
        !.buckets = Append([@ EXCEPT ![b] = [ht.buckets[b] EXCEPT
                                               !.depth_ = local_depth,
                                               !.list_ = SelectSeq(items_to_redistribute, Stays)]],
                           [Bucket(ht.bucket_size_, local_depth) EXCEPT
                              !.list_ = SelectSeq(items_to_redistribute, Moves)]),
        !.dir_ = [i \in 1..Len(@) |->
                    IF @[i] = b /\ BitSet(i - 1, split_mask) THEN new_bucket ELSE @[i]],
        !.num_buckets_ = @ + 1]

\* Insert that splits the full bucket once and stores the key without a retry
HashInsertSplitsOnce(ht, key, value) ==
  LET b == ht.dir_[IndexOf(ht, key) + 1]
      r == BucketInsert(ht.buckets[b], key, value)
  IN IF r.ok THEN [ht EXCEPT !.buckets[b] = r.bucket]
     ELSE LET ht1 == IF ht.buckets[b].depth_ = ht.global_depth_
                     THEN [ht EXCEPT !.global_depth_ = @ + 1, !.dir_ = @ \o @]
                     ELSE ht
              ht2 == RedistributeBucket(ht1, b)
              b2 == ht2.dir_[IndexOf(ht2, key) + 1]
          IN [ht2 EXCEPT !.buckets[b2].list_ = Append(@, <<key, value>>)]

RECURSIVE HashInsert(_, _, _)
HashInsert(ht, key, value) ==
  LET b == ht.dir_[IndexOf(ht, key) + 1]
      r == BucketInsert(ht.buckets[b], key, value)
  IN IF r.ok THEN [ht EXCEPT !.buckets[b] = r.bucket]
     ELSE LET ht1 == IF ht.buckets[b].depth_ = ht.global_depth_
                     THEN [ht EXCEPT !.global_depth_ = @ + 1, !.dir_ = @ \o @]
                     ELSE ht
          IN HashInsert(RedistributeBucket(ht1, b), key, value)

(***************************************************************************)
(* LRUKReplacer.  history_[f] = <<>> stands for "f is not in history_";    *)
(* evictable_[f] = FALSE for "absent or false", which the code never tells *)
(* apart.                                                                  *)
(***************************************************************************)
LRUKReplacer(num_frames, k) ==
  [replacer_size_ |-> num_frames, k_ |-> k,
   history_ |-> [f \in 0..(num_frames - 1) |-> <<>>],
   evictable_ |-> [f \in 0..(num_frames - 1) |-> FALSE],
   curr_size_ |-> 0, current_timestamp_ |-> 0, aborted |-> FALSE]

\* the scan of history_ (in an order that does not change its result, since
\* no two frames share a timestamp); c holds the loop's locals
RECURSIVE EvictScan(_, _, _)
EvictScan(r, fid, c) ==
  IF fid >= r.replacer_size_ THEN c
  ELSE LET history == r.history_[fid]
       IN IF history = <<>> \/ ~r.evictable_[fid] THEN EvictScan(r, fid + 1, c)
          ELSE LET is_inf == Len(history) < r.k_
                   k_distance == r.current_timestamp_ - Head(history)
                   c1 == IF is_inf
                         THEN IF ~c.has_inf \/ Head(history) < c.earliest_timestamp
                              THEN [c EXCEPT !.has_inf = TRUE, !.candidate_frame = fid,
                                             !.earliest_timestamp = Head(history)]
                              ELSE c
                         ELSE IF c.has_inf THEN c
                         ELSE IF c.candidate_frame = -1 \/ k_distance > c.max_k_distance
                         THEN [c EXCEPT !.max_k_distance = k_distance,
                                        !.candidate_frame = fid]
                         ELSE IF k_distance = c.max_k_distance
                                 /\ Head(history) < Head(r.history_[c.candidate_frame])
                         THEN [c EXCEPT !.candidate_frame = fid]
                         ELSE c
               IN EvictScan(r, fid + 1, c1)

\* Evict that takes the evictable frame of the smallest id
EvictLowestFrame(r) ==
  LET fs == {f \in DOMAIN r.history_ : r.history_[f] # <<>> /\ r.evictable_[f]}
  IN IF fs = {} THEN [ok |-> FALSE, frame_id |-> -1, r |-> r]
     ELSE LET f == CHOOSE f \in fs : \A g \in fs : f <= g
          IN [ok |-> TRUE, frame_id |-> f,
              r |-> [r EXCEPT !.history_[f] = <<>>, !.evictable_[f] = FALSE,
                              !.curr_size_ = @ - 1]]

Evict(r) ==
  IF r.curr_size_ = 0 THEN [ok |-> FALSE, frame_id |-> -1, r |-> r]
  ELSE LET c == EvictScan(r, 0, [candidate_frame |-> -1, max_k_distance |-> 0,
                                 has_inf |-> FALSE,
                                 earliest_timestamp |-> MaxTimestamp + 1])
       IN IF c.candidate_frame = -1 THEN [ok |-> FALSE, frame_id |-> -1, r |-> r]
          ELSE [ok |-> TRUE, frame_id |-> c.candidate_frame,
                r |-> [r EXCEPT !.history_[c.candidate_frame] = <<>>,
                                !.evictable_[c.candidate_frame] = FALSE,
                                !.curr_size_ = @ - 1]]

RecordAccess(r, frame_id) ==
  LET h == Append(r.history_[frame_id], r.current_timestamp_)
  IN [r EXCEPT !.history_[frame_id] = IF Len(h) > r.k_ THEN Tail(h) ELSE h,
               !.current_timestamp_ = @ + 1]

\* SetEvictable without the test that the frame is in history_
SetEvictableUntracked(r, frame_id, set_evictable) ==
  IF r.evictable_[frame_id] = set_evictable THEN r
  ELSE [r EXCEPT !.evictable_[frame_id] = set_evictable,
                 !.curr_size_ = IF set_evictable THEN @ + 1 ELSE @ - 1]

SetEvictable(r, frame_id, set_evictable) ==
  IF r.history_[frame_id] = <<>> THEN r
  ELSE IF r.evictable_[frame_id] = set_evictable THEN r
  ELSE [r EXCEPT !.evictable_[frame_id] = set_evictable,
                 !.curr_size_ = IF set_evictable THEN @ + 1 ELSE @ - 1]

\* BUSTUB_ASSERT(expr, message): a failed assertion ends the process
BUSTUB_ASSERT(r, expr) == IF expr THEN r ELSE [r EXCEPT !.aborted = TRUE]

\* Remove that erases the frame although its assertion failed
ReplacerRemoveUnchecked(r, frame_id) ==
  IF r.history_[frame_id] = <<>> THEN r
  ELSE [r EXCEPT !.history_[frame_id] = <<>>, !.evictable_[frame_id] = FALSE,
                 !.curr_size_ = @ - 1]

\* LRUKReplacer::Remove
ReplacerRemove(r, frame_id) ==
  IF r.history_[frame_id] = <<>> THEN r
  ELSE LET a == IF ~r.evictable_[frame_id] THEN BUSTUB_ASSERT(r, FALSE) ELSE r
       IN IF a.aborted THEN a
          ELSE [a EXCEPT !.history_[frame_id] = <<>>, !.evictable_[frame_id] = FALSE,
                         !.curr_size_ = @ - 1]

Size(r) == r.curr_size_

(***************************************************************************)
(* BufferPoolManagerInstance.  Every method holds latch_ from entry to     *)
(* return, so a method is one atomic step.  b is the instance              *)
(* [pages_, free_list_, page_table_, replacer_, next_page_id_, ret].       *)
(***************************************************************************)
Page == [page_id_ |-> INVALID_PAGE_ID, pin_count_ |-> 0, is_dirty_ |-> FALSE, data_ |-> 0]

\* DiskManager: the stored contents of every page; a page never written reads as zeros
DiskManager == [page_id \in PageIds |-> 0]

WritePage(b, page_id, page_data) == [b EXCEPT !.disk_manager_[page_id] = page_data]

ReadPage(b, page_id) == b.disk_manager_[page_id]

BPMInit ==
  [pages_ |-> [f \in Frames |-> Page],
   disk_manager_ |-> DiskManager,
   free_list_ |-> [i \in 1..pool_size_ |-> i - 1],
   page_table_ |-> ExtendibleHashTable(bucket_size_),
   replacer_ |-> LRUKReplacer(pool_size_, k_),
   next_page_id_ |-> 0,
   ret |-> "none"]

\* AcquireFrame that leaves the victim's entry in the page table
AcquireFrameKeepsEntry(b) ==
  IF b.free_list_ # <<>>
  THEN [ok |-> TRUE, frame_id |-> Head(b.free_list_),
        b |-> [b EXCEPT !.free_list_ = Tail(@)]]
  ELSE LET e == Evict(b.replacer_)
       IN IF ~e.ok THEN [ok |-> FALSE, frame_id |-> -1, b |-> b]
          ELSE [ok |-> TRUE, frame_id |-> e.frame_id,
                b |-> [b EXCEPT !.replacer_ = e.r,
                                !.pages_[e.frame_id].is_dirty_ = FALSE]]

\* AcquireFrame that drops the victim without writing it back
AcquireFrameNoWriteBack(b) ==
  IF b.free_list_ # <<>>
  THEN [ok |-> TRUE, frame_id |-> Head(b.free_list_),
        b |-> [b EXCEPT !.free_list_ = Tail(@)]]
  ELSE LET e == Evict(b.replacer_)
       IN IF ~e.ok THEN [ok |-> FALSE, frame_id |-> -1, b |-> b]
          ELSE LET victim == b.pages_[e.frame_id]
                   b1 == [b EXCEPT !.replacer_ = e.r]
               IN [ok |-> TRUE, frame_id |-> e.frame_id,
                   b |-> IF victim.page_id_ # INVALID_PAGE_ID
                         THEN [b1 EXCEPT !.pages_[e.frame_id].is_dirty_ = FALSE,
                                         !.page_table_ = HashRemove(@, victim.page_id_)]
                         ELSE b1]

\* a frame for a page to load: from the free list, or a victim, written back
\* if dirty and taken out of the page table
AcquireFrame(b) ==
  IF b.free_list_ # <<>>
  THEN [ok |-> TRUE, frame_id |-> Head(b.free_list_),
        b |-> [b EXCEPT !.free_list_ = Tail(@)]]
  ELSE LET e == Evict(b.replacer_)
       IN IF ~e.ok THEN [ok |-> FALSE, frame_id |-> -1, b |-> b]
          ELSE LET victim == b.pages_[e.frame_id]
                   b1 == [b EXCEPT !.replacer_ = e.r]
                   b2 == IF victim.is_dirty_
                         THEN [WritePage(b1, victim.page_id_, victim.data_) EXCEPT
                                 !.pages_[e.frame_id].is_dirty_ = FALSE]
                         ELSE b1
               IN [ok |-> TRUE, frame_id |-> e.frame_id,
                   b |-> IF victim.page_id_ # INVALID_PAGE_ID
                         THEN [b2 EXCEPT !.page_table_ = HashRemove(@, victim.page_id_)]
                         ELSE b1]

\* the page is put into the frame, pinned once, mapped and marked not evictable
LoadPage(b, frame_id, page_id, page_data) ==
  [b EXCEPT !.pages_[frame_id] = [page_id_ |-> page_id, pin_count_ |-> 1,
                                   is_dirty_ |-> FALSE, data_ |-> page_data],
            !.page_table_ = HashInsert(@, page_id, frame_id),
            !.replacer_ = SetEvictable(RecordAccess(@, frame_id), frame_id, FALSE),
            !.ret = "page"]

\* NewPgImp that takes the page id before it looks for a frame
NewPgImpAllocatesFirst(b) ==
  LET a == AcquireFrame(b)
  IN IF ~a.ok THEN [b EXCEPT !.ret = "nullptr", !.next_page_id_ = @ + 1]
     ELSE LoadPage([a.b EXCEPT !.next_page_id_ = @ + 1], a.frame_id, b.next_page_id_, 0)

NewPgImp(b) ==
  LET a == AcquireFrame(b)
  IN IF ~a.ok THEN [b EXCEPT !.ret = "nullptr"]
     ELSE LoadPage([a.b EXCEPT !.next_page_id_ = @ + 1], a.frame_id, b.next_page_id_, 0)

\* FetchPgImp that leaves a resident page's frame evictable
FetchPgImpKeepsEvictable(b, page_id) ==
  IF page_id = INVALID_PAGE_ID THEN [b EXCEPT !.ret = "nullptr"]
  ELSE LET found == HashFind(b.page_table_, page_id)
       IN IF found.found
          THEN [b EXCEPT !.pages_[found.value].pin_count_ = @ + 1,
                         !.replacer_ = RecordAccess(@, found.value),
                         !.ret = "page"]
          ELSE LET a == AcquireFrame(b)
               IN IF ~a.ok THEN [b EXCEPT !.ret = "nullptr"]
                  ELSE LoadPage(a.b, a.frame_id, page_id, ReadPage(a.b, page_id))

FetchPgImp(b, page_id) ==
  IF page_id = INVALID_PAGE_ID THEN [b EXCEPT !.ret = "nullptr"]
  ELSE LET found == HashFind(b.page_table_, page_id)
       IN IF found.found
          THEN [b EXCEPT !.pages_[found.value].pin_count_ = @ + 1,
                         !.replacer_ = SetEvictable(RecordAccess(@, found.value),
                                                    found.value, FALSE),
                         !.ret = "page"]
          ELSE LET a == AcquireFrame(b)
               IN IF ~a.ok THEN [b EXCEPT !.ret = "nullptr"]
                  ELSE LoadPage(a.b, a.frame_id, page_id, ReadPage(a.b, page_id))

\* UnpinPgImp that stores is_dirty over the dirty bit
UnpinPgImpOverwritesDirty(b, page_id, is_dirty) ==
  LET found == HashFind(b.page_table_, page_id)
      frame_id == found.value
  IN IF ~found.found THEN [b EXCEPT !.ret = "false"]
     ELSE IF b.pages_[frame_id].pin_count_ <= 0 THEN [b EXCEPT !.ret = "false"]
     ELSE [b EXCEPT !.pages_[frame_id].pin_count_ = @ - 1,
                    !.pages_[frame_id].is_dirty_ = is_dirty,
                    !.replacer_ = IF b.pages_[frame_id].pin_count_ - 1 = 0
                                  THEN SetEvictable(@, frame_id, TRUE) ELSE @,
                    !.ret = "true"]

\* UnpinPgImp that marks the frame evictable whatever its pin count
UnpinPgImpAlwaysEvictable(b, page_id, is_dirty) ==
  LET found == HashFind(b.page_table_, page_id)
      frame_id == found.value
  IN IF ~found.found THEN [b EXCEPT !.ret = "false"]
     ELSE IF b.pages_[frame_id].pin_count_ <= 0 THEN [b EXCEPT !.ret = "false"]
     ELSE [b EXCEPT !.pages_[frame_id].pin_count_ = @ - 1,
                    !.pages_[frame_id].is_dirty_ = IF is_dirty THEN TRUE ELSE @,
                    !.replacer_ = SetEvictable(@, frame_id, TRUE),
                    !.ret = "true"]

UnpinPgImp(b, page_id, is_dirty) ==
  LET found == HashFind(b.page_table_, page_id)
      frame_id == found.value
  IN IF ~found.found THEN [b EXCEPT !.ret = "false"]
     ELSE IF b.pages_[frame_id].pin_count_ <= 0 THEN [b EXCEPT !.ret = "false"]
     ELSE [b EXCEPT !.pages_[frame_id].pin_count_ = @ - 1,
                    !.pages_[frame_id].is_dirty_ = IF is_dirty THEN TRUE ELSE @,
                    !.replacer_ = IF b.pages_[frame_id].pin_count_ - 1 = 0
                                  THEN SetEvictable(@, frame_id, TRUE) ELSE @,
                    !.ret = "true"]

\* FlushPgImp that writes the page only when it is dirty
FlushPgImpOnlyIfDirty(b, page_id) ==
  IF page_id = INVALID_PAGE_ID THEN [b EXCEPT !.ret = "false"]
  ELSE LET found == HashFind(b.page_table_, page_id)
       IN IF ~found.found THEN [b EXCEPT !.ret = "false"]
          ELSE [(IF b.pages_[found.value].is_dirty_
                 THEN WritePage(b, page_id, b.pages_[found.value].data_)
                 ELSE b) EXCEPT
                  !.pages_[found.value].is_dirty_ = FALSE, !.ret = "true"]

FlushPgImp(b, page_id) ==
  IF page_id = INVALID_PAGE_ID THEN [b EXCEPT !.ret = "false"]
  ELSE LET found == HashFind(b.page_table_, page_id)
       IN IF ~found.found THEN [b EXCEPT !.ret = "false"]
          ELSE [WritePage(b, page_id, b.pages_[found.value].data_) EXCEPT
                  !.pages_[found.value].is_dirty_ = FALSE, !.ret = "true"]

\* the loop of FlushAllPgsImp from frame i on
RECURSIVE FlushFrames(_, _)
FlushFrames(b, i) ==
  IF i >= pool_size_ THEN b
  ELSE LET page == b.pages_[i]
       IN FlushFrames(IF page.page_id_ # INVALID_PAGE_ID
                      THEN [WritePage(b, page.page_id_, page.data_) EXCEPT
                              !.pages_[i].is_dirty_ = FALSE]
                      ELSE b, i + 1)

FlushAllPgsImp(b) == [FlushFrames(b, 0) EXCEPT !.ret = "void"]

\* DeletePgImp that does not put the frame back into the free list
DeletePgImpLosesFrame(b, page_id) ==
  LET found == HashFind(b.page_table_, page_id)
      frame_id == found.value
  IN IF ~found.found THEN [b EXCEPT !.ret = "true"]
     ELSE IF b.pages_[frame_id].pin_count_ > 0 THEN [b EXCEPT !.ret = "false"]
     ELSE [b EXCEPT !.replacer_ = ReplacerRemove(SetEvictable(@, frame_id, TRUE), frame_id),
                    !.page_table_ = HashRemove(@, page_id),
                    !.pages_[frame_id] = Page,
                    !.ret = "true"]

\* DeletePgImp without the test of the pin count
DeletePgImpIgnoresPins(b, page_id) ==
  LET found == HashFind(b.page_table_, page_id)
      frame_id == found.value
  IN IF ~found.found THEN [b EXCEPT !.ret = "true"]
     ELSE [b EXCEPT !.replacer_ = ReplacerRemove(SetEvictable(@, frame_id, TRUE), frame_id),
                    !.page_table_ = HashRemove(@, page_id),
                    !.pages_[frame_id] = Page,
                    !.free_list_ = Append(@, frame_id),
                    !.ret = "true"]

DeletePgImp(b, page_id) ==
  LET found == HashFind(b.page_table_, page_id)
      frame_id == found.value
  IN IF ~found.found THEN [b EXCEPT !.ret = "true"]
     ELSE IF b.pages_[frame_id].pin_count_ > 0 THEN [b EXCEPT !.ret = "false"]
     ELSE [b EXCEPT !.replacer_ = ReplacerRemove(SetEvictable(@, frame_id, TRUE), frame_id),
                    !.page_table_ = HashRemove(@, page_id),
                    !.pages_[frame_id] = Page,
                    !.free_list_ = Append(@, frame_id),
                    !.ret = "true"]

(***************************************************************************)
(* The state record of the module's variables.                             *)
(***************************************************************************)
vars == <<tree_pages, root_page_id_, tree_next_pid, tree_pin, header_page, unpin_false,
          latch, thr,
          live, phase, calls, preloaded, bpm, last_dirty, replacer, evicted, hash_table, hash_model, find_ret>>

\* the pool and the containers, which the tree specifications leave alone
poolvars == <<bpm, last_dirty, replacer, evicted, hash_table, hash_model, find_ret>>

\* the containers called directly
unitvars == <<replacer, evicted, hash_table, hash_model, find_ret>>

treevars == <<tree_pages, root_page_id_, tree_next_pid, tree_pin, header_page,
              unpin_false, latch,
              thr, live, phase, calls, preloaded>>

State ==
  [pages |-> tree_pages, root |-> root_page_id_, npid |-> tree_next_pid,
   pin |-> tree_pin, latch |-> latch, thr |-> thr, full |-> FALSE,
   header |-> header_page, unpin_false |-> unpin_false]

Becomes(s) ==
  /\ tree_pages' = s.pages
  /\ root_page_id_' = s.root
  /\ tree_next_pid' = s.npid
  /\ tree_pin' = s.pin
  /\ header_page' = s.header
  /\ unpin_false' = s.unpin_false
  /\ latch' = s.latch
  /\ thr' = s.thr

\* the abstract map after thread t's operation returned
LiveAfter(me) ==
  IF me.pc # "idle" THEN live
  ELSE IF me.op = "Insert" /\ me.ret = "true" THEN [live EXCEPT ![me.key] = me.val]
  ELSE IF me.op = "Remove" THEN [live EXCEPT ![me.key] = 0]
  ELSE live

\* Values: the RID made from the key (InsertFromFile), and a second value that
\* callers pass when they insert a key that is already live.
RidOf(k) == k
OtherRidOf(k) == k + 2 * MaxKey
ValuesFor(k) == {RidOf(k)} \cup (IF live[k] # 0 THEN {OtherRidOf(k)} ELSE {})

EmptyTree ==
  [pages |-> [p \in Pids |-> FreePage], root |-> INVALID_PAGE_ID, npid |-> 1,
   pin |-> [p \in Pids |-> 0], latch |-> [p \in Pids |-> NoLatch],
   thr |-> [t \in Threads |-> ThreadInit], full |-> FALSE,
   header |-> [found |-> FALSE, root_id |-> INVALID_PAGE_ID], unpin_false |-> FALSE]

StartsAs(s) ==
  /\ tree_pages = s.pages
  /\ root_page_id_ = s.root
  /\ tree_next_pid = s.npid
  /\ tree_pin = s.pin
  /\ header_page = s.header
  /\ unpin_false = s.unpin_false
  /\ latch = s.latch
  /\ thr = s.thr

PoolInit ==
  /\ bpm = BPMInit
  /\ last_dirty = [page_id \in PageIds |-> 0]
  /\ replacer = LRUKReplacer(ReplacerFrames, k_)
  /\ evicted = [ok |-> FALSE, frame_id |-> -1, among |-> {}]
  /\ hash_table = ExtendibleHashTable(HashBucketSize)
  /\ hash_model = [key \in HashKeys |-> 0]
  /\ find_ret = [key |-> -1, found |-> FALSE, value |-> -1]

TreeInit ==
  /\ StartsAs(EmptyTree)
  /\ live = [k \in ConcKeys |-> 0]
  /\ calls = [t \in Threads |-> <<>>]
  /\ preloaded = {}
  /\ PoolInit

(***************************************************************************)
(* Sequential specification: thread 1 calls Insert, Remove and GetValue    *)
(* with a transaction, one call after the other.                           *)
(***************************************************************************)
SeqCall(op, key, val) ==
  /\ thr[1].pc = "idle"
  /\ LET s == Run(Call(State, 1, op, key, val), 1)
     IN Becomes(s) /\ live' = LiveAfter(s.thr[1])
  /\ UNCHANGED <<phase, calls, preloaded, poolvars>>

SeqInsert ==
  \E k \in Keys : \E v \in ValuesFor(k) :
     tree_next_pid <= MaxPid /\ SeqCall("Insert", k, v)
SeqRemove == \E k \in Keys : SeqCall("Remove", k, 0)
SeqGetValue == \E k \in Keys : SeqCall("GetValue", k, 0)

SeqNext == SeqInsert \/ SeqRemove \/ SeqGetValue

SeqInit == TreeInit /\ phase = "any"

SpecSeq == SeqInit /\ [][SeqNext]_vars

(***************************************************************************)
(* Sequential specification without a transaction: thread 1 makes the same *)
(* calls with transaction == nullptr.                                      *)
(***************************************************************************)
NoTxnInit ==
  /\ StartsAs([EmptyTree EXCEPT
                 !.thr = [t \in Threads |-> [ThreadInit EXCEPT !.txn = FALSE]]])
  /\ live = [k \in ConcKeys |-> 0]
  /\ calls = [t \in Threads |-> <<>>]
  /\ preloaded = {}
  /\ phase = "any"
  /\ PoolInit

SpecNoTxn == NoTxnInit /\ [][SeqNext]_vars

(***************************************************************************)
(* Sequential specification with a pool that can run out of frames: the    *)
(* calls of SpecSeq, up to an Insert during which NewPage returns nullptr. *)
(***************************************************************************)
FullInsert ==
  \E k \in Keys : \E v \in ValuesFor(k) :
     /\ thr[1].pc = "idle"
     /\ phase = "any"
     /\ tree_next_pid <= MaxPid
     /\ LET s == Run(Call([State EXCEPT !.full = TRUE], 1, "Insert", k, v), 1)
        IN Becomes(s) /\ live' = LiveAfter(s.thr[1])
     /\ phase' = "full"
     /\ UNCHANGED <<calls, preloaded, poolvars>>

\* the calls before the failing one
FullBefore == phase = "any" /\ SeqNext

FullNext == FullInsert \/ FullBefore

FullInit == TreeInit /\ phase = "any"

SpecFull == FullInit /\ [][FullNext]_vars

(***************************************************************************)
(* Round-trip specification: distinct keys are inserted, then removed.     *)
(***************************************************************************)
RoundTripInsert ==
  /\ phase = "insert"
  /\ \E k \in Keys : live[k] = 0 /\ tree_next_pid <= MaxPid
                     /\ SeqCall("Insert", k, RidOf(k))

RoundTripRemove ==
  /\ phase \in {"insert", "remove"}
  /\ thr[1].pc = "idle"
  /\ \E k \in Keys :
       /\ live[k] # 0
       /\ LET s == Run(Call(State, 1, "Remove", k, 0), 1)
          IN Becomes(s) /\ live' = LiveAfter(s.thr[1])
  /\ phase' = "remove"
  /\ UNCHANGED <<calls, preloaded, poolvars>>

RoundTripNext == RoundTripInsert \/ RoundTripRemove

RoundTripInit == TreeInit /\ phase = "insert"

SpecRoundTrip == RoundTripInit /\ [][RoundTripNext]_vars

(***************************************************************************)
(* Concurrent specification: the threads, each with its own transaction,   *)
(* call Insert, Remove and GetValue on a tree that was loaded before; a    *)
(* thread is preempted between two latch acquisitions.                     *)
(***************************************************************************)
ConcSetup == <<1, 5, 6, 2, 3>>

RECURSIVE Preload(_)
Preload(n) ==
  IF n = 0 THEN EmptyTree
  ELSE Run(Call(Preload(n - 1), 1, "Insert", ConcSetup[n], RidOf(ConcSetup[n])), 1)

ConcInit ==
  \E n \in 0..Len(ConcSetup) :
     /\ StartsAs([Preload(n) EXCEPT !.thr = [t \in Threads |-> ThreadInit]])
     /\ preloaded = {ConcSetup[i] : i \in 1..n}
     /\ live = [k \in ConcKeys |->
                  IF \E i \in 1..n : ConcSetup[i] = k THEN RidOf(k) ELSE 0]
     /\ calls = [t \in Threads |-> <<>>]
     /\ phase = "any"
     /\ PoolInit

\* the value thread t inserts: its own, so that the winner of a race shows
RidFor(t, k) == IF t = 1 THEN RidOf(k) ELSE OtherRidOf(k)

ConcCall(t, op, key, val) ==
  /\ thr[t].pc = "idle"
  /\ Len(calls[t]) < MaxCalls
  /\ Becomes(Call(State, t, op, key, val))
  /\ calls' = [calls EXCEPT ![t] = Append(@, <<op, key>>)]
  /\ UNCHANGED <<live, phase, preloaded, poolvars>>

ConcInsert ==
  \E t \in Threads, k \in ConcKeys :
     tree_next_pid <= MaxPid /\ ConcCall(t, "Insert", k, RidFor(t, k))
ConcRemove == \E t \in Threads, k \in ConcKeys : ConcCall(t, "Remove", k, 0)
ConcGetValue == \E t \in Threads, k \in ConcKeys : ConcCall(t, "GetValue", k, 0)

\* a thread runs up to its next latch acquisition or root_page_id_ access
ConcStep ==
  \E t \in Threads :
     /\ CanStep(State, t)
     /\ LET s == StepOf(State, t)
        IN Becomes(s) /\ live' = LiveAfter(s.thr[t])
     /\ UNCHANGED <<phase, calls, preloaded, poolvars>>

ConcNext == ConcInsert \/ ConcRemove \/ ConcGetValue \/ ConcStep

SpecConc == ConcInit /\ [][ConcNext]_vars

(***************************************************************************)
(* Buffer pool specification: threads call the pool's methods, in any      *)
(* order, with page ids NewPage has handed out.                            *)
(***************************************************************************)
Allocated == 0..(bpm.next_page_id_ - 1)

Resident(page_id) == HashFind(bpm.page_table_, page_id).found

NewPg ==
  /\ bpm.next_page_id_ < MaxPageId
  /\ bpm.replacer_.current_timestamp_ < MaxTimestamp
  /\ bpm' = NewPgImp(bpm)
  /\ UNCHANGED <<treevars, last_dirty, unitvars>>

FetchPg ==
  /\ bpm.replacer_.current_timestamp_ < MaxTimestamp
  /\ \E page_id \in Allocated :
       /\ Resident(page_id) =>
            bpm.pages_[HashFind(bpm.page_table_, page_id).value].pin_count_ < MaxPin
       /\ bpm' = FetchPgImp(bpm, page_id)
  /\ UNCHANGED <<treevars, last_dirty, unitvars>>

\* what the client's successful UnpinPage(page_id, true) declares the page to hold
LastDirtyAfter(b, page_id, is_dirty) ==
  IF is_dirty /\ b.ret = "true"
  THEN [last_dirty EXCEPT ![page_id] = b.pages_[HashFind(b.page_table_, page_id).value].data_]
  ELSE last_dirty

\* last_dirty of a page that a client changed and that no
\* UnpinPage(page_id, true) has declared since
Undeclared == MaxData + 1

\* the page was changed, no UnpinPage(page_id, true) has declared it, and the
\* caller is the last client holding a pin on it
MustSayDirty(page_id) ==
  /\ Resident(page_id)
  /\ bpm.pages_[HashFind(bpm.page_table_, page_id).value].pin_count_ = 1
  /\ last_dirty[page_id] = Undeclared

\* a client that changed the page's data unpins it with is_dirty = true
UnpinPg ==
  /\ \E page_id \in Allocated, is_dirty \in BOOLEAN :
       /\ MustSayDirty(page_id) => is_dirty
       /\ bpm' = UnpinPgImp(bpm, page_id, is_dirty)
       /\ last_dirty' = LastDirtyAfter(bpm', page_id, is_dirty)
  /\ UNCHANGED <<treevars, unitvars>>

\* a client that holds a pin changes the page's data
WritePg ==
  /\ \E page_id \in Allocated, page_data \in 0..MaxData :
       /\ Resident(page_id)
       /\ LET frame_id == HashFind(bpm.page_table_, page_id).value
          IN /\ bpm.pages_[frame_id].pin_count_ > 0
             /\ bpm.pages_[frame_id].data_ # page_data
             /\ bpm' = [bpm EXCEPT !.pages_[frame_id].data_ = page_data]
       /\ last_dirty' = [last_dirty EXCEPT ![page_id] = Undeclared]
  /\ UNCHANGED <<treevars, unitvars>>

FlushPg ==
  /\ \E page_id \in Allocated : bpm' = FlushPgImp(bpm, page_id)
  /\ UNCHANGED <<treevars, last_dirty, unitvars>>

FlushAllPgs == bpm' = FlushAllPgsImp(bpm) /\ UNCHANGED <<treevars, last_dirty, unitvars>>

\* a deleted page holds nothing but what the disk has of it
DeletePg ==
  /\ \E page_id \in Allocated :
       /\ bpm' = DeletePgImp(bpm, page_id)
       /\ last_dirty' = IF bpm'.ret = "true"
                        THEN [last_dirty EXCEPT ![page_id] = ReadPage(bpm', page_id)]
                        ELSE last_dirty
  /\ UNCHANGED <<treevars, unitvars>>

BPMNext == NewPg \/ FetchPg \/ UnpinPg \/ FlushPg \/ FlushAllPgs \/ DeletePg

SpecBPM == SeqInit /\ [][BPMNext]_vars

(***************************************************************************)
(* Buffer pool with clients that write: as above, and a client that holds  *)
(* a pin changes the page's data; the last client to unpin a page whose    *)
(* data changed unpins it with is_dirty = true.                            *)
(***************************************************************************)
DiskNext == BPMNext \/ WritePg

SpecDisk == SeqInit /\ [][DiskNext]_vars

(***************************************************************************)
(* The replacer called directly: any method on any frame, in any order,    *)
(* until an assertion ends the process.                                    *)
(***************************************************************************)
ReplacerIds == 0..(ReplacerFrames - 1)

othervars == <<treevars, bpm, last_dirty, hash_table, hash_model, find_ret>>

\* the tracked frames whose evictable flag is true
EvictableFrames(r) ==
  {f \in DOMAIN r.history_ : r.history_[f] # <<>> /\ r.evictable_[f]}

DoRecordAccess ==
  /\ ~replacer.aborted
  /\ replacer.current_timestamp_ < MaxTimestamp
  /\ \E frame_id \in ReplacerIds : replacer' = RecordAccess(replacer, frame_id)
  /\ UNCHANGED <<evicted, othervars>>

DoSetEvictable ==
  /\ ~replacer.aborted
  /\ \E frame_id \in ReplacerIds, set_evictable \in BOOLEAN :
       replacer' = SetEvictable(replacer, frame_id, set_evictable)
  /\ UNCHANGED <<evicted, othervars>>

DoEvict ==
  /\ ~replacer.aborted
  /\ LET e == Evict(replacer)
     IN /\ replacer' = e.r
        /\ evicted' = [ok |-> e.ok, frame_id |-> e.frame_id,
                       among |-> EvictableFrames(replacer)]
  /\ UNCHANGED othervars

DoRemove ==
  /\ ~replacer.aborted
  /\ \E frame_id \in ReplacerIds : replacer' = ReplacerRemove(replacer, frame_id)
  /\ UNCHANGED <<evicted, othervars>>

ReplacerNext == DoRecordAccess \/ DoSetEvictable \/ DoEvict \/ DoRemove

SpecReplacer == SeqInit /\ [][ReplacerNext]_vars

(***************************************************************************)
(* The hash table called directly, next to a map from each key to the      *)
(* value of its latest Insert, 0 when the key was removed or never         *)
(* inserted.                                                               *)
(***************************************************************************)
nonhashvars == <<treevars, bpm, last_dirty, replacer, evicted>>

DoInsert ==
  /\ \E key \in HashKeys, value \in HashValues :
       /\ hash_table' = HashInsert(hash_table, key, value)
       /\ hash_model' = [hash_model EXCEPT ![key] = value]
  /\ UNCHANGED <<find_ret, nonhashvars>>

DoHashRemove ==
  /\ \E key \in HashKeys :
       /\ hash_table' = HashRemove(hash_table, key)
       /\ hash_model' = [hash_model EXCEPT ![key] = 0]
  /\ UNCHANGED <<find_ret, nonhashvars>>

DoFind ==
  /\ \E key \in HashKeys :
       LET r == HashFind(hash_table, key)
       IN find_ret' = [key |-> key, found |-> r.found, value |-> r.value]
  /\ UNCHANGED <<hash_table, hash_model, nonhashvars>>

HashNext == DoInsert \/ DoHashRemove \/ DoFind

SpecHash == SeqInit /\ [][HashNext]_vars

(***************************************************************************)
(* The tree as a structure: pages below the root, keys below a page.       *)
(***************************************************************************)
ChildrenOf(node) == {node.items[i][2] : i \in 1..Len(node.items)}

RECURSIVE Subtree(_)
Subtree(p) ==
  IF tree_pages[p].kind = "internal"
  THEN {p} \cup UNION {Subtree(c) : c \in ChildrenOf(tree_pages[p])}
  ELSE {p}

TreePages == IF root_page_id_ = INVALID_PAGE_ID THEN {} ELSE Subtree(root_page_id_)

LeafKeys(node) == {node.items[i][1] : i \in 1..Len(node.items)}

KeysUnder(p) ==
  UNION {LeafKeys(tree_pages[q]) : q \in {x \in Subtree(p) : IsLeafPage(tree_pages[x])}}

LiveKeys == {k \in ConcKeys : live[k] # 0}

Idle == \A t \in Threads : thr[t].pc = "idle"

RECURSIVE SortedSeq(_)
SortedSeq(S) ==
  IF S = {} THEN <<>>
  ELSE LET m == CHOOSE x \in S : \A y \in S : x <= y
       IN <<m>> \o SortedSeq(S \ {m})

(***************************************************************************)
(* The index iterator: Begin(), End(), IsEnd(), operator++, operator==,    *)
(* and the caller's loop  for (it = Begin(); it != End(); ++it).           *)
(***************************************************************************)
IsEmpty == root_page_id_ = INVALID_PAGE_ID

IndexIterator(page_id, index) ==
  [page_id |-> page_id, index |-> index, has_leaf |-> page_id # INVALID_PAGE_ID]

End == [page_id |-> INVALID_PAGE_ID, index |-> 0, has_leaf |-> FALSE]

RECURSIVE LeftMostLeaf(_)
LeftMostLeaf(p) ==
  IF tree_pages[p].kind = "internal" /\ GetSize(tree_pages[p]) > 0
  THEN LeftMostLeaf(ValueAt(tree_pages[p], 0))
  ELSE p

Begin == IF root_page_id_ = INVALID_PAGE_ID THEN End
         ELSE IndexIterator(LeftMostLeaf(root_page_id_), 0)

IsEnd(it) ==
  \/ it.page_id = INVALID_PAGE_ID
  \/ ~it.has_leaf
  \/ it.index >= GetSize(tree_pages[it.page_id])

IteratorEquals(a, b) == a.page_id = b.page_id /\ a.index = b.index

IteratorNext(it) ==
  IF IsEnd(it) THEN it
  ELSE LET leaf == tree_pages[it.page_id]
           index == it.index + 1
       IN IF index >= GetSize(leaf)
          THEN IF leaf.next = INVALID_PAGE_ID THEN End
               ELSE IndexIterator(leaf.next, 0)
          ELSE [it EXCEPT !.index = index]

ScanFuel == MaxKey + MaxPid + PidHeadroom

\* The caller's loop.  done is TRUE when the loop ended at End(); a loop that
\* stands on an iterator that is at its end but is not End() reads past the
\* leaf's items and is never advanced by operator++.
RECURSIVE Scan(_, _, _)
Scan(it, keys, fuel) ==
  IF IteratorEquals(it, End) THEN [keys |-> keys, done |-> TRUE]
  ELSE IF IsEnd(it) \/ fuel = 0 THEN [keys |-> keys, done |-> FALSE]
  ELSE Scan(IteratorNext(it),
            Append(keys, KeyAt(tree_pages[it.page_id], it.index)), fuel - 1)

TreeHeight ==
  IF root_page_id_ = INVALID_PAGE_ID THEN 0
  ELSE IF IsLeafPage(tree_pages[root_page_id_]) THEN 1
  ELSE IF \A c \in ChildrenOf(tree_pages[root_page_id_]) : IsLeafPage(tree_pages[c]) THEN 2
  ELSE 3

(***************************************************************************)
(* Claims on the sequential tree.                                          *)
(***************************************************************************)

\* C1: single-threaded, after any sequence of Insert and Remove calls,
\* GetValue(k) returns true and the one-element list holding the value of the
\* successful Insert of k when k is live, and false and the empty list
\* otherwise.
C1_GetValueReturnsLive ==
  (thr[1].pc = "idle" /\ thr[1].op = "GetValue") =>
     IF live[thr[1].key] # 0
     THEN thr[1].ret = "true" /\ thr[1].result = <<live[thr[1].key]>>
     ELSE thr[1].ret = "false" /\ thr[1].result = <<>>

\* a live key is found in a tree of three levels while another key is not live
C1_Witness ==
  /\ thr[1].pc = "idle" /\ thr[1].op = "GetValue"
  /\ live[thr[1].key] # 0
  /\ thr[1].result = <<live[thr[1].key]>>
  /\ TreeHeight = 3
  /\ \E k \in Keys : live[k] = 0

\* C2: after any sequence of Insert and Remove, the loop from Begin() with
\* operator++ ends at End() and has visited every live key exactly once, in
\* strictly ascending order.
C2_IterationVisitsLiveKeys ==
  Idle => LET r == Scan(Begin, <<>>, ScanFuel)
          IN r.done /\ r.keys = SortedSeq(LiveKeys)

\* the loop succeeds on a tree of several leaves
C2_Witness ==
  /\ Idle /\ TreeHeight = 3
  /\ LET r == Scan(Begin, <<>>, ScanFuel)
     IN r.done /\ r.keys = SortedSeq(LiveKeys) /\ Len(r.keys) = MaxKey

\* C3: inserting N distinct keys and then removing all of them, in any order,
\* leaves the tree empty: IsEmpty() is true, the root page id is INVALID.
C3_EmptyAfterRemovingAll ==
  (Idle /\ phase = "remove" /\ LiveKeys = {}) => IsEmpty

\* the round trip of a tree that never split does end with the empty tree
C3_Witness == Idle /\ phase = "remove" /\ LiveKeys = {} /\ IsEmpty

\* C4: Insert of a key that is not live returns true; Insert of a live key
\* (the second of two Inserts in a row, too) returns false and leaves the
\* pages, the root and the value of the key unchanged; Remove of a key that
\* is not live (the second of two Removes in a row, too) changes nothing.
C4_Repeat ==
  /\ (thr'[1].op = "Insert" /\ live[thr'[1].key] = 0) => thr'[1].ret = "true"
  /\ (thr'[1].op = "Insert" /\ live[thr'[1].key] # 0) =>
        /\ thr'[1].ret = "false"
        /\ tree_pages' = tree_pages /\ root_page_id_' = root_page_id_
        /\ live' = live
  /\ (thr'[1].op = "Remove" /\ live[thr'[1].key] = 0) =>
        /\ tree_pages' = tree_pages /\ root_page_id_' = root_page_id_
        /\ live' = live
  /\ (thr'[1].op = "Remove" /\ live[thr'[1].key] # 0) => live'[thr'[1].key] = 0

C4_InsertRemoveTwice == [][C4_Repeat]_vars

\* a live key of a tree of several leaves was inserted again with another
\* value, the call returned false and the value is the one of the first call
C4_Witness ==
  /\ Idle /\ thr[1].op = "Insert" /\ thr[1].ret = "false"
  /\ thr[1].val = OtherRidOf(thr[1].key)
  /\ live[thr[1].key] = RidOf(thr[1].key)
  /\ TreeHeight >= 2

\* C5: after every completed Insert or Remove every non-root leaf has
\* min_size <= size < max_size and every non-root internal page has
\* min_size <= size <= max_size.
C5_SizeBounds ==
  Idle => \A p \in TreePages \ {root_page_id_} :
            LET node == tree_pages[p]
            IN IF IsLeafPage(node)
               THEN GetMinSize(node) <= GetSize(node) /\ GetSize(node) < GetMaxSize(node)
               ELSE GetMinSize(node) <= GetSize(node) /\ GetSize(node) <= GetMaxSize(node)

\* C6: after every completed Insert or Remove, for every internal entry
\* (k, child) at index i >= 1 all keys under child are >= k and smaller than
\* the next separator, and all keys under child 0 are smaller than the
\* separator at index 1.
C6_Separators ==
  Idle => \A p \in TreePages :
            LET node == tree_pages[p]
            IN (node.kind = "internal") =>
               \A i \in 0..(GetSize(node) - 1) :
                 \A k \in KeysUnder(ValueAt(node, i)) :
                   /\ (i >= 1) => k >= KeyAt(node, i)
                   /\ (i + 1 < GetSize(node)) => k < KeyAt(node, i + 1)

\* a tree of three levels after a Remove, with a page given back by a merge
\* and at least three keys left under the separators
C6_Witness ==
  /\ Idle /\ TreeHeight = 3 /\ thr[1].op = "Remove"
  /\ thr[1].key \in Keys /\ live[thr[1].key] = 0
  /\ Cardinality(LiveKeys) >= 3
  /\ \E p \in 1..(tree_next_pid - 1) : tree_pages[p] = FreePage

(***************************************************************************)
(* Claims on the concurrent tree.                                          *)
(***************************************************************************)
Holders(p) ==
  (IF latch[p].w = NoThread THEN {} ELSE {latch[p].w}) \cup latch[p].r

\* every thread of S waits for a latch that only threads of S hold
DeadlockedSet(S) ==
  /\ S # {}
  /\ \A t \in S : /\ Running(State, t)
                  /\ Blocked(State, t)
                  /\ Holders(LatchWanted(State, t)) \subseteq S

\* C7: with two threads running Insert, Remove and GetValue, each with its
\* own transaction, no reachable state holds a set of threads each blocked on
\* a page latch held by another of them.
C7_NoLatchDeadlock == \A S \in SUBSET Threads : ~DeadlockedSet(S)

\* two threads ran to completion although one had to wait for the other
C7_Witness ==
  /\ \A t \in Threads : thr[t].pc = "idle" /\ Len(calls[t]) = MaxCalls
  /\ \A t \in Threads : thr[t].op \in {"Insert", "Remove"}
  /\ TreeHeight >= 2

OnlyInsertsOfOthers(k) ==
  \A t \in Threads : \A i \in 1..Len(calls[t]) :
     \/ calls[t][i][1] = "GetValue"
     \/ calls[t][i][1] = "Insert" /\ calls[t][i][2] # k

\* C8: a key that was inserted before the run and that no thread removes is
\* found by every GetValue that returns while the other threads only insert
\* other keys.
C8_LiveKeyFound ==
  \A t \in Threads :
     (/\ thr[t].pc = "idle" /\ thr[t].op = "GetValue"
      /\ thr[t].key \in preloaded
      /\ OnlyInsertsOfOthers(thr[t].key))
     => thr[t].ret = "true" /\ thr[t].result = <<RidOf(thr[t].key)>>

\* a preloaded key is found while the other thread is between its leaf split
\* and the insertion of the separator into the parent
C8_Witness ==
  \E t, u \in Threads :
     /\ thr[t].pc = "idle" /\ thr[t].op = "GetValue"
     /\ thr[t].key \in preloaded /\ OnlyInsertsOfOthers(thr[t].key)
     /\ thr[t].ret = "true"
     /\ thr[u].op = "Insert" /\ thr[u].pc \in {"iip", "iip_latch_parent"}

(***************************************************************************)
(* Claims on the buffer pool.                                              *)
(***************************************************************************)
\* the number of entries of the page table's buckets whose key is page_id
EntriesFor(page_id) ==
  LET ht == bpm.page_table_
  IN Cardinality({<<j, i>> \in (1..Len(ht.buckets)) \X (1..bucket_size_) :
                    /\ i <= Len(ht.buckets[j].list_)
                    /\ ht.buckets[j].list_[i][1] = page_id})

C10_PinsProtect ==
  \A f \in Frames :
     /\ bpm.pages_[f].pin_count_ >= 0
     /\ bpm.pages_[f].pin_count_ > 0 => ~bpm.replacer_.evictable_[f]

C10_StaysResident ==
  \A f \in Frames :
     bpm.pages_[f].pin_count_ > 0 =>
       /\ bpm'.pages_[f].page_id_ = bpm.pages_[f].page_id_
       /\ HashFind(bpm'.page_table_, bpm.pages_[f].page_id_) = [found |-> TRUE, value |-> f]

EveryFramePinned ==
  /\ bpm.free_list_ = <<>>
  /\ \A f \in Frames : bpm.pages_[f].pin_count_ > 0

NoFrameEvictable ==
  \A f \in Frames : ~(bpm.replacer_.history_[f] # <<>> /\ bpm.replacer_.evictable_[f])

\* the pages that are resident in the pool now and no longer in b
EvictedBy(b) == {page_id \in Allocated : Resident(page_id) /\ ~HashFind(b.page_table_, page_id).found}

\* b is the pool after a NewPage, or a FetchPage of a page that is not resident
C11_Outcome(b) ==
  /\ b.ret \in {"nullptr", "page"}
  /\ (b.ret = "nullptr") <=> EveryFramePinned
  /\ (b.ret = "nullptr") <=> (bpm.free_list_ = <<>> /\ NoFrameEvictable)
  /\ (b.ret = "nullptr") => b = [bpm EXCEPT !.ret = "nullptr"]
  /\ (b.ret = "page") => Cardinality(EvictedBy(b)) <= 1

\* C11: in every reachable state of the pool, NewPage and FetchPage of a page
\* that is not resident return null exactly when the free list is empty and
\* no frame is evictable, which is when every frame is pinned; a call that
\* succeeds evicts at most one resident page; a null return leaves frames,
\* page table, free list, replacer and next_page_id unchanged.
C11_NullIffNoFrame ==
  /\ C11_Outcome(NewPgImp(bpm))
  /\ \A page_id \in Allocated : ~Resident(page_id) => C11_Outcome(FetchPgImp(bpm, page_id))

\* a call has returned null with every frame pinned, one of them twice, and
\* a page of the pool was evicted before
C11_Witness ==
  /\ bpm.ret = "nullptr" /\ EveryFramePinned
  /\ \E f \in Frames : bpm.pages_[f].pin_count_ = 2
  /\ \E page_id \in Allocated : ~Resident(page_id)

\* b is the pool after UnpinPage(page_id, is_dirty)
C13_Outcome(b, page_id, is_dirty) ==
  LET found == HashFind(bpm.page_table_, page_id)
      f == found.value
  IN IF ~found.found \/ bpm.pages_[f].pin_count_ = 0
     THEN b = [bpm EXCEPT !.ret = "false"]
     ELSE /\ b.ret = "true"
          /\ b.pages_ = [bpm.pages_ EXCEPT
                           ![f].pin_count_ = @ - 1,
                           ![f].is_dirty_ = (@ \/ is_dirty)]
          /\ b.replacer_.evictable_ =
                [bpm.replacer_.evictable_ EXCEPT ![f] = (b.pages_[f].pin_count_ = 0)]
          /\ b.replacer_.history_ = bpm.replacer_.history_
          /\ b.page_table_ = bpm.page_table_ /\ b.free_list_ = bpm.free_list_
          /\ b.disk_manager_ = bpm.disk_manager_ /\ b.next_page_id_ = bpm.next_page_id_

\* C13: in every reachable state UnpinPage(p, d) returns false and changes
\* nothing when p is not resident or its pin count is 0; otherwise it returns
\* true, takes exactly 1 off the pin count, sets the dirty bit to (old dirty
\* or d) and leaves the frame evictable exactly when the pin count is now 0.
C13_UnpinContract ==
  \A page_id \in PageIds, is_dirty \in BOOLEAN :
     C13_Outcome(UnpinPgImp(bpm, page_id, is_dirty), page_id, is_dirty)

\* an UnpinPage has returned false on a resident page whose pin count is 0,
\* and a frame is dirty and evictable
C13_Witness ==
  /\ bpm.ret = "false"
  /\ bpm.next_page_id_ = pool_size_
  /\ \A page_id \in Allocated :
        Resident(page_id) /\ bpm.pages_[HashFind(bpm.page_table_, page_id).value].pin_count_ = 0
  /\ \E f \in Frames : bpm.pages_[f].is_dirty_ /\ bpm.replacer_.evictable_[f]

\* b is the pool after DeletePage(page_id)
C14_Outcome(b, page_id) ==
  LET found == HashFind(bpm.page_table_, page_id)
      f == found.value
  IN IF ~found.found THEN b = [bpm EXCEPT !.ret = "true"]
     ELSE IF bpm.pages_[f].pin_count_ > 0 THEN b = [bpm EXCEPT !.ret = "false"]
     ELSE /\ b.ret = "true"
          /\ ~HashFind(b.page_table_, page_id).found
          /\ \A other \in PageIds \ {page_id} :
                HashFind(b.page_table_, other) = HashFind(bpm.page_table_, other)
          /\ b.replacer_.history_ = [bpm.replacer_.history_ EXCEPT ![f] = <<>>]
          /\ b.replacer_.evictable_ = [bpm.replacer_.evictable_ EXCEPT ![f] = FALSE]
          /\ ~b.replacer_.aborted
          /\ b.pages_ = [bpm.pages_ EXCEPT ![f] = Page]
          /\ ~InSeq(bpm.free_list_, f)
          /\ b.free_list_ = Append(bpm.free_list_, f)
          /\ NewPgImp(b).ret = "page"
          /\ bpm.free_list_ = <<>> => NewPgImp(b).pages_[f].page_id_ = b.next_page_id_

\* C14: in every reachable state DeletePage(p) returns true and changes
\* nothing when p is not resident, returns false and changes nothing when p
\* is resident and pinned, and otherwise returns true with p out of the page
\* table and of the replacer, its frame reset to the INVALID page id, clean
\* and unpinned, and the frame id once at the end of the free list, from where
\* a later NewPage takes it.
C14_DeleteContract ==
  \A page_id \in PageIds : C14_Outcome(DeletePgImp(bpm, page_id), page_id)

\* a frame that held a page is in the free list after a DeletePage, while
\* the other frame holds a pinned page
C14_Witness ==
  /\ bpm.ret = "true"
  /\ bpm.next_page_id_ >= pool_size_
  /\ bpm.free_list_ # <<>>
  /\ \E page_id \in Allocated : ~Resident(page_id)
  /\ \E f \in Frames : bpm.pages_[f].pin_count_ > 0

(***************************************************************************)
(* Claims on the buffer pool with clients that write.                      *)
(***************************************************************************)
\* the data of page_id in the pool b, which holds the page
DataIn(b, page_id) == b.pages_[HashFind(b.page_table_, page_id).value].data_

\* what the disk holds of the pages that are out of the pool, and what a
\* FetchPage returns of any page
C12_NothingLost ==
  \A page_id \in Allocated :
     /\ ~Resident(page_id) => ReadPage(bpm, page_id) = last_dirty[page_id]
     /\ LET b == FetchPgImp(bpm, page_id)
        IN (~Resident(page_id) /\ b.ret = "page") => DataIn(b, page_id) = last_dirty[page_id]
     /\ (Resident(page_id) /\ bpm.pages_[HashFind(bpm.page_table_, page_id).value].pin_count_ = 0)
          => DataIn(bpm, page_id) = last_dirty[page_id]

\* b is the pool after a NewPage or FetchPage: a frame that holds another
\* page than before has its dirty page on disk and out of the page table
C12_WriteBack(b) ==
  \A f \in Frames :
     LET victim == bpm.pages_[f]
     IN (/\ victim.page_id_ # INVALID_PAGE_ID
         /\ b.pages_[f].page_id_ # victim.page_id_)
        => /\ victim.is_dirty_ => ReadPage(b, victim.page_id_) = victim.data_
           /\ ~HashFind(b.page_table_, victim.page_id_).found

\* C12: in every reachable state, a NewPage or FetchPage that reuses a frame
\* holding a dirty page P leaves P's data on disk and P out of the page
\* table; the disk holds, of every page out of the pool, the data the page
\* had when it was last unpinned with is_dirty = true, and FetchPage(P)
\* returns that data.
C12_DirtyVictimWrittenBack ==
  /\ C12_NothingLost
  /\ C12_WriteBack(NewPgImp(bpm))
  /\ \A page_id \in Allocated : C12_WriteBack(FetchPgImp(bpm, page_id))

\* a page that was written has just been read back from disk into a frame
\* free of older accesses, clean and with the data of its last dirty unpin
C12_Witness ==
  /\ bpm.ret = "page"
  /\ \E f \in Frames :
       LET page == bpm.pages_[f]
       IN /\ page.page_id_ # INVALID_PAGE_ID
          /\ page.data_ = MaxData /\ ~page.is_dirty_ /\ page.pin_count_ = 1
          /\ last_dirty[page.page_id_] = page.data_
          /\ bpm.replacer_.history_[f] = <<bpm.replacer_.current_timestamp_ - 1>>
          /\ bpm.free_list_ = <<>>

\* the pool bpm with the pages of the set flushed written to disk and clean,
\* and with the return value ret: nothing else differs
C15_Flushed(flushed, ret) ==
  [bpm EXCEPT
     !.disk_manager_ = [page_id \in PageIds |->
                          IF page_id \in flushed THEN DataIn(bpm, page_id)
                          ELSE @[page_id]],
     !.pages_ = [f \in Frames |->
                   IF @[f].page_id_ \in flushed
                   THEN [@[f] EXCEPT !.is_dirty_ = FALSE] ELSE @[f]],
     !.ret = ret]

\* the pages that the pool holds
C15_Held == {page_id \in PageIds : HashFind(bpm.page_table_, page_id).found}

\* C15: in every reachable state, FlushPage(P) returns false and changes
\* nothing when P is the invalid id or not in the pool; otherwise it writes
\* the frame's data to disk whether or not the page is dirty, clears the
\* dirty flag and returns true; FlushAllPages does so for every frame
\* holding a valid page; neither changes a pin count, the replacer, the page
\* table or the free list.
C15_FlushContract ==
  /\ \A page_id \in PageIds \cup {INVALID_PAGE_ID} :
       FlushPgImp(bpm, page_id) =
         IF page_id \in C15_Held THEN C15_Flushed({page_id}, "true")
         ELSE [bpm EXCEPT !.ret = "false"]
  /\ FlushAllPgsImp(bpm) = C15_Flushed(C15_Held, "void")
  /\ \A f \in Frames :
       (bpm.pages_[f].page_id_ # INVALID_PAGE_ID) <=> (bpm.pages_[f].page_id_ \in C15_Held)

\* the only page ever brought into the pool is pinned and was never unpinned,
\* so never dirty, and the disk holds the data its client wrote: a flush has
\* written a page that was not dirty
C15_Witness ==
  /\ bpm.replacer_.current_timestamp_ = 1
  /\ \E f \in Frames :
       LET page == bpm.pages_[f]
       IN /\ page.page_id_ # INVALID_PAGE_ID
          /\ page.pin_count_ = 1 /\ ~page.is_dirty_
          /\ page.data_ = MaxData
          /\ ReadPage(bpm, page.page_id_) = MaxData

(***************************************************************************)
(* Claims on the replacer called directly.                                 *)
(***************************************************************************)
\* f has fewer than K recorded accesses: its backward k-distance is +infinity
C16_IsInf(r, f) == Len(r.history_[f]) < r.k_

\* the backward k-distance of a frame with K recorded accesses
C16_Distance(r, f) ==
  r.current_timestamp_ - r.history_[f][Len(r.history_[f]) - r.k_ + 1]

\* Evict takes f rather than g
C16_Before(r, f, g) ==
  IF C16_IsInf(r, f) # C16_IsInf(r, g) THEN C16_IsInf(r, f)
  ELSE IF ~C16_IsInf(r, f) /\ C16_Distance(r, f) # C16_Distance(r, g)
  THEN C16_Distance(r, f) > C16_Distance(r, g)
  ELSE Head(r.history_[f]) < Head(r.history_[g])

\* C16: in every reachable state, Evict returns none, and changes nothing,
\* iff no tracked frame is evictable; otherwise it returns an evictable
\* frame that comes before every other evictable frame: +infinity distance
\* (fewer than K accesses) before finite, then larger distance, then
\* smaller oldest retained timestamp; it drops the victim's history and
\* flag, so that the next access starts the frame's history anew.
C16_EvictContract ==
  LET e == Evict(replacer)
      f == e.frame_id
  IN /\ e.ok <=> EvictableFrames(replacer) # {}
     /\ ~e.ok => e.r = replacer
     /\ e.ok =>
          /\ f \in EvictableFrames(replacer)
          /\ \A g \in EvictableFrames(replacer) \ {f} : C16_Before(replacer, f, g)
          /\ e.r = [replacer EXCEPT !.history_[f] = <<>>, !.evictable_[f] = FALSE,
                                    !.curr_size_ = @ - 1]
          /\ RecordAccess(e.r, f).history_[f] = <<replacer.current_timestamp_>>

\* the last Evict chose among three evictable frames and returned frame 2,
\* the only one with fewer than K accesses, although its one access is the
\* latest of all
C16_Witness ==
  /\ evicted = [ok |-> TRUE, frame_id |-> 2, among |-> {0, 1, 2}]
  /\ replacer.history_[2] = <<>>
  /\ replacer.current_timestamp_ = 5
  /\ \A f \in {0, 1} : Len(replacer.history_[f]) = replacer.k_ /\ replacer.evictable_[f]
  /\ replacer.history_[0][1] < replacer.history_[1][1]

\* C17: in every reachable state Size() is the number of tracked frames
\* whose evictable flag is true; RecordAccess of any frame leaves Size() and
\* the frame's flag as they are, so that a newly tracked frame is not
\* evictable; SetEvictable changes the flag and moves Size() by one when the
\* frame is tracked and its flag differs, and changes nothing otherwise.
C17_SizeContract ==
  /\ Size(replacer) = Cardinality(EvictableFrames(replacer))
  /\ \A f \in ReplacerIds :
       LET r == RecordAccess(replacer, f)
       IN /\ Size(r) = Size(replacer)
          /\ r.evictable_ = replacer.evictable_
          /\ replacer.history_[f] = <<>> => f \notin EvictableFrames(r)
  /\ \A f \in ReplacerIds, set_evictable \in BOOLEAN :
       SetEvictable(replacer, f, set_evictable) =
         IF replacer.history_[f] # <<>> /\ replacer.evictable_[f] # set_evictable
         THEN [replacer EXCEPT !.evictable_[f] = set_evictable,
                               !.curr_size_ = IF set_evictable THEN @ + 1 ELSE @ - 1]
         ELSE replacer

\* the frame that the last Evict returned is tracked again and not evictable,
\* next to two evictable frames
C17_Witness ==
  /\ evicted.ok
  /\ replacer.history_[evicted.frame_id] # <<>>
  /\ ~replacer.evictable_[evicted.frame_id]
  /\ Size(replacer) = 2 /\ Cardinality(EvictableFrames(replacer)) = 2

\* the fields of the replacer r as they are for frame f, and Size()
C18_Of(r, f) == <<r.history_[f], r.evictable_[f], Size(r)>>

\* C18: in every reachable state of a running process, Remove(f) of a
\* tracked frame that is not evictable ends the process with the frame's history, its flag and Size()
\* as they were; of an evictable frame it drops history and flag and
\* decrements Size() by one; of an untracked frame it changes nothing; it
\* never touches another frame.
C18_RemoveContract ==
  \A f \in IF replacer.aborted THEN {} ELSE ReplacerIds :
     LET r == ReplacerRemove(replacer, f)
     IN /\ \A g \in ReplacerIds \ {f} : C18_Of(r, g)[1] = replacer.history_[g]
                                        /\ C18_Of(r, g)[2] = replacer.evictable_[g]
        /\ r.current_timestamp_ = replacer.current_timestamp_
        /\ IF replacer.history_[f] = <<>> THEN r = replacer
           ELSE IF ~replacer.evictable_[f]
           THEN r.aborted /\ C18_Of(r, f) = C18_Of(replacer, f)
           ELSE ~r.aborted /\ C18_Of(r, f) = <<<<>>, FALSE, Size(replacer) - 1>>

\* the process has ended in Remove of a tracked frame that is not evictable,
\* next to an evictable frame, after an Evict
C18_Witness ==
  /\ replacer.aborted
  /\ evicted.ok
  /\ Size(replacer) = 1
  /\ \E f \in ReplacerIds : replacer.history_[f] # <<>> /\ ~replacer.evictable_[f]

(***************************************************************************)
(* Claims on the hash table called directly.                               *)
(***************************************************************************)
\* the number of items in the buckets of ht
RECURSIVE C19_Items(_, _)
C19_Items(ht, b) ==
  IF b > Len(ht.buckets) THEN 0 ELSE Len(ht.buckets[b].list_) + C19_Items(ht, b + 1)

\* C19: in every reachable state, Find(k) returns (true, v) iff k was
\* inserted and not removed since, v being the value of the latest
\* Insert(k, .), and the table holds one item for each such key; Insert of a
\* key that is present changes the value of its item and nothing else: no
\* item is added, no bucket split, no directory doubled, even when the
\* bucket is full.
C19_FindContract ==
  /\ \A key \in HashKeys :
       HashFind(hash_table, key) =
         IF hash_model[key] # 0 THEN [found |-> TRUE, value |-> hash_model[key]]
         ELSE [found |-> FALSE, value |-> -1]
  /\ C19_Items(hash_table, 1) = Cardinality({key \in HashKeys : hash_model[key] # 0})
  /\ \A key \in HashKeys, value \in HashValues :
       hash_model[key] # 0 =>
         LET ht == HashInsert(hash_table, key, value)
         IN /\ HashFind(ht, key) = [found |-> TRUE, value |-> value]
            /\ \A other \in HashKeys \ {key} : HashFind(ht, other) = HashFind(hash_table, other)
            /\ C19_Items(ht, 1) = C19_Items(hash_table, 1)
            /\ ht.dir_ = hash_table.dir_
            /\ GetGlobalDepth(ht) = GetGlobalDepth(hash_table)
            /\ GetNumBuckets(ht) = GetNumBuckets(hash_table)
            /\ \A b \in 1..Len(hash_table.buckets) :
                  ht.buckets[b].depth_ = hash_table.buckets[b].depth_

\* after the directory has doubled twice and both of its halves have split,
\* which takes every key to have been inserted, Find of a key that was
\* removed has returned false, next to a full bucket that holds the greatest
\* value
C19_Witness ==
  /\ GetGlobalDepth(hash_table) = 2 /\ GetNumBuckets(hash_table) = 4
  /\ find_ret.key \in HashKeys /\ ~find_ret.found /\ hash_model[find_ret.key] = 0
  /\ \E b \in 1..Len(hash_table.buckets) :
       /\ Len(hash_table.buckets[b].list_) = hash_table.bucket_size_
       /\ \E i \in 1..Len(hash_table.buckets[b].list_) :
             hash_table.buckets[b].list_[i][2] = MaxHashValue

\* 2 to the power n
C20_Slots(n) == 2 ^ n

\* the depths and the bucket count of ht
C20_Shape(ht) ==
  <<GetGlobalDepth(ht), GetNumBuckets(ht), ht.dir_,
    [b \in 1..Len(ht.buckets) |-> ht.buckets[b].depth_]>>

\* the table of bucket size 2 after Insert of 1, 2 and 3
C20_Example ==
  HashInsert(HashInsert(HashInsert(ExtendibleHashTable(2), 1, 1), 2, 1), 3, 1)

\* C20: in every reachable state the directory has 2^global_depth slots;
\* the local depth of every bucket is at most the global depth; no bucket
\* holds more than bucket_size items; GetNumBuckets() is the number of
\* distinct buckets that the directory refers to and at most 2^global_depth;
\* Remove of any key leaves the global depth, the local depths, the
\* directory and the bucket count as they are; and with bucket size 2,
\* Insert of 1, 2, 3 gives global depth 1 and two buckets of local depth 1.
C20_TableInvariant ==
  /\ Len(hash_table.dir_) = C20_Slots(GetGlobalDepth(hash_table))
  /\ \A dir_index \in 0..(Len(hash_table.dir_) - 1) :
       GetLocalDepth(hash_table, dir_index) <= GetGlobalDepth(hash_table)
  /\ \A b \in 1..Len(hash_table.buckets) :
       Len(hash_table.buckets[b].list_) <= hash_table.bucket_size_
  /\ GetNumBuckets(hash_table)
       = Cardinality({hash_table.dir_[i] : i \in 1..Len(hash_table.dir_)})
  /\ GetNumBuckets(hash_table) <= C20_Slots(GetGlobalDepth(hash_table))
  /\ \A key \in HashKeys :
       C20_Shape(HashRemove(hash_table, key)) = C20_Shape(hash_table)
  /\ GetGlobalDepth(C20_Example) = 1 /\ GetNumBuckets(C20_Example) = 2
  /\ GetLocalDepth(C20_Example, 0) = 1 /\ GetLocalDepth(C20_Example, 1) = 1

\* a table that grew to global depth 2 and four buckets is empty again
C20_Witness ==
  /\ GetGlobalDepth(hash_table) = 2 /\ GetNumBuckets(hash_table) = 4
  /\ \A key \in HashKeys : hash_model[key] = 0
  /\ \A b \in 1..Len(hash_table.buckets) : hash_table.buckets[b].list_ = <<>>

(***************************************************************************)
(* Latches and page sets of the tree operations.                           *)
(***************************************************************************)
\* the pages whose latch thread t holds, in either mode
LatchesHeldBy(t) == {p \in Pids : latch[p].w = t \/ t \in latch[p].r}

C30_Keys(pages) == UNION {LeafKeys(pages[p]) : p \in {q \in Pids : IsLeafPage(pages[q])}}

C30_Step ==
  (thr'[1].op = "Insert" /\ thr'[1].ret = "false") =>
     /\ thr'[1].key \in C30_Keys(tree_pages)
     /\ C30_Keys(tree_pages') = C30_Keys(tree_pages)
     /\ \A p \in Pids : Len(tree_pages'[p].items) = Len(tree_pages[p].items)

\* C30: every call of Insert that returns false, also one during which the
\* pool cannot supply a page for the first root or for a split, was called
\* with a key that is already in the tree, and leaves the set of stored keys
\* and the size of every node as they were before the call.
C30_FalseOnlyOnDuplicate == [][C30_Step]_vars

\* Insert returned false for a key that was absent, and the key is in a leaf
C30_Witness ==
  /\ thr[1].pc = "idle" /\ thr[1].op = "Insert" /\ thr[1].ret = "false"
  /\ live[thr[1].key] = 0
  /\ thr[1].key \in C30_Keys(tree_pages)

(***************************************************************************)
(* The index iterator and the pool: c is the record [pin, it] of the pin   *)
(* counts and the iterator.                                                *)
(***************************************************************************)
\* IndexIterator(bpm, page_id, index): fetches the leaf it is to point at
IteratorOpen(c, page_id, index) ==
  IF page_id # INVALID_PAGE_ID
  THEN [FetchPage(c, page_id) EXCEPT !.it = IndexIterator(page_id, index)]
  ELSE [c EXCEPT !.it = IndexIterator(page_id, index)]

\* Begin(): from the fetched page p down the leftmost children; the leaf is
\* unpinned before the iterator is constructed
RECURSIVE BeginDescend(_, _)
BeginDescend(c, p) ==
  IF tree_pages[p].kind = "internal" /\ GetSize(tree_pages[p]) > 0
  THEN LET next_page_id == ValueAt(tree_pages[p], 0)
       IN BeginDescend(FetchPage(UnpinPage(c, p), next_page_id), next_page_id)
  ELSE IteratorOpen(UnpinPage(c, p), p, 0)

BeginPinned ==
  LET c == [pin |-> tree_pin, it |-> End]
  IN IF root_page_id_ = INVALID_PAGE_ID THEN c
     ELSE BeginDescend(FetchPage(c, root_page_id_), root_page_id_)

\* operator++ that fetches the successor leaf and keeps the pin of the leaf it leaves
IteratorAdvanceKeepsPin(c) ==
  IF IsEnd(c.it) THEN c
  ELSE LET leaf == tree_pages[c.it.page_id]
       IN IF c.it.index + 1 >= GetSize(leaf)
          THEN IF leaf.next = INVALID_PAGE_ID THEN [c EXCEPT !.it = End]
               ELSE IteratorOpen(c, leaf.next, 0)
          ELSE [c EXCEPT !.it.index = @ + 1]

\* operator++
IteratorAdvance(c) ==
  IF IsEnd(c.it) THEN c
  ELSE LET leaf == tree_pages[c.it.page_id]
           unpinned == UnpinPage(c, c.it.page_id)
       IN IF c.it.index + 1 >= GetSize(leaf)
          THEN IF leaf.next = INVALID_PAGE_ID THEN [unpinned EXCEPT !.it = End]
               ELSE IteratorOpen(unpinned, leaf.next, 0)
          ELSE [c EXCEPT !.it.index = @ + 1]

\* ~IndexIterator()
IteratorDestroy(c) ==
  IF c.it.has_leaf /\ c.it.page_id # INVALID_PAGE_ID
  THEN UnpinPage(c, c.it.page_id) ELSE c

\* the iterator of Begin() after n increments
RECURSIVE C22_After(_)
C22_After(n) == IF n = 0 THEN BeginPinned ELSE IteratorAdvance(C22_After(n - 1))

C24_SplitUnderParentLatch ==
  \A t \in Threads :
     (thr[t].pc = "iip" /\ thr[t].parent_id # INVALID_PAGE_ID) =>
        /\ latch[thr[t].parent_id].w = t
        /\ InSeq(thr[t].page_set, thr[t].parent_id)

\* a leaf under an internal root has been split while another thread runs
C24_Witness ==
  \E t \in Threads :
     /\ thr[t].pc = "iip" /\ thr[t].parent_id = root_page_id_
     /\ tree_pages[thr[t].left_id].kind = "leaf"
     /\ tree_pages[thr[t].left_id].next = thr[t].right_id
     /\ \E u \in Threads \ {t} : thr[u].pc # "idle"

\* C25: whenever CoalesceOrRedistribute runs on a leaf that underflowed in
\* Remove (called with a transaction), the thread found the parent of the
\* leaf in its page set and holds the write latch on it since the descent:
\* it never has to fetch and latch the parent afresh.
C25_MergeUnderParentLatch ==
  \A t \in Threads :
     (/\ thr[t].op = "Remove" /\ thr[t].txn
      /\ thr[t].pc \in {"cor_latch_parent", "cor_latch_sib", "cor_latch_cur2"}
      /\ tree_pages[thr[t].cor_page].kind = "leaf") =>
        /\ thr[t].pc # "cor_latch_parent"
        /\ thr[t].parent_locked
        /\ latch[thr[t].parent_id].w = t

\* a leaf underflowed and its parent is held since the descent
C25_Witness ==
  \E t \in Threads :
     /\ thr[t].op = "Remove" /\ thr[t].pc = "cor_latch_sib" /\ thr[t].parent_locked
     /\ latch[thr[t].parent_id].w = t
     /\ tree_pages[thr[t].cor_page].kind = "leaf"
     /\ GetSize(tree_pages[thr[t].cor_page]) < GetMinSize(tree_pages[thr[t].cor_page])

(***************************************************************************)
(* root_page_id_ and the latch of the root page.                           *)
(***************************************************************************)
\* thread t holds the write latch of page p during its step: it held it
\* before the step, or the step begins by acquiring it
C29_WriteLatched(t, p) == latch[p].w = t \/ LatchWanted(State, t) = p

C29_Step ==
  (root_page_id_' # root_page_id_ /\ root_page_id_ # INVALID_PAGE_ID) =>
     \E t \in Threads : thr'[t] # thr[t] /\ C29_WriteLatched(t, root_page_id_)

\* C29: every step that assigns root_page_id_ in a tree that has a root page
\* (a new root after a root split, the promotion of the single child, the
\* marking of the tree as empty) is taken by a thread that holds the write
\* latch on that root page.
C29_RootAssignedUnderLatch == [][C29_Step]_vars

\* Remove has emptied the tree, or promoted a child, holding the root's latch:
\* the thread is back from the root inspection and the root has changed
C29_Witness ==
  \E t \in Threads :
     /\ thr[t].op = "Remove" /\ thr[t].pc = "idle"
     /\ root_page_id_ = INVALID_PAGE_ID
     /\ preloaded # {}

(***************************************************************************)
(* The descent of GetValue.                                                *)
(***************************************************************************)
\* the pages whose latch thread t holds in the state record s
LatchesHeldIn(s, t) == {p \in Pids : s.latch[p].w = t \/ t \in s.latch[p].r}

\* thread t is inside FindLeafPage for GetValue and its next latch is free
C26_Descending(t) ==
  /\ thr[t].op = "GetValue"
  /\ thr[t].pc \in {"find_latch_root", "find_latch_child"}
  /\ ~Blocked(State, t)

\* C26: during the descent of GetValue the thread holds the read latch of
\* the current page when it acquires the read latch of the child, and gives
\* up the current page's latch afterwards; it holds at most two latches at
\* any time, none of them a write latch; and when FindLeafPage returns the
\* leaf, the thread holds the leaf's read latch and no other latch, and the
\* leaf's pin and no other pin.
C26_SearchCrabbing ==
  \A t \in Threads :
     /\ thr[t].op = "GetValue" =>
          /\ Cardinality(LatchesHeldBy(t)) <= 1
          /\ \A p \in Pids : latch[p].w # t
     /\ (C26_Descending(t) /\ thr[t].pc = "find_latch_root") =>
          LET s == FindLatchedRoot(State, t)
          IN /\ LatchesHeldBy(t) = {}
             /\ LatchesHeldIn(s, t) = {thr[t].page}
     /\ (C26_Descending(t) /\ thr[t].pc = "find_latch_child") =>
          LET me == thr[t]
              s == FindLatchedChild(State, t)
              r == FindMoveToChild(State, t)
          IN /\ LatchesHeldBy(t) = {me.page}
             /\ LatchesHeldIn(s, t) = {me.page, me.child}
             /\ LatchesHeldIn(r, t) = {me.child}
             /\ r.thr[t].page = me.child
             /\ me.txn => r.thr[t].page_set = <<me.child>>
             /\ (\A u \in Threads \ {t} : thr[u].pc = "idle") =>
                   r.pin = [p \in Pids |-> IF p = me.child THEN 1 ELSE 0]

\* GetValue is about to move from an internal root to a leaf while the other
\* thread holds a latch
C26_Witness ==
  \E t \in Threads :
     /\ C26_Descending(t) /\ thr[t].pc = "find_latch_child"
     /\ IsLeafPage(tree_pages[thr[t].child])
     /\ \E u \in Threads \ {t} : LatchesHeldBy(u) # {}

(***************************************************************************)
(* The order in which a thread acquires latches.                           *)
(***************************************************************************)
\* C27: whenever a thread is about to acquire the latch of a page (and may
\* block on it), it holds no latch on a descendant of that page: a parent or
\* the root is latched only by a thread that holds nothing below it.
C27_NoLatchBelowWanted ==
  \A t \in Threads :
     LET p == LatchWanted(State, t)
     IN p # INVALID_PAGE_ID => LatchesHeldBy(t) \cap (Subtree(p) \ {p}) = {}

\* InsertIntoParent is about to latch the parent of a split leaf, holding no
\* latch, while the other thread holds one
C27_Witness ==
  \E t \in Threads :
     /\ thr[t].pc = "iip_latch_parent" /\ LatchesHeldBy(t) = {}
     /\ thr[t].left_id \in Subtree(thr[t].parent_id)
     /\ \E u \in Threads \ {t} : LatchesHeldBy(u) # {}

\* C28: whenever a thread is about to acquire the write latch of a leaf (the
\* sibling or the current page in CoalesceOrRedistribute, the successor leaf
\* in Insert) while it holds the write latch of another leaf, the leaf it
\* holds has the smaller page id.
C28_LeavesInAscendingOrder ==
  \A t \in Threads :
     LET p == LatchWanted(State, t)
     IN (thr[t].pc \in {"ins_latch_next", "cor_latch_sib", "cor_latch_cur2"}
         /\ tree_pages[p].kind = "leaf") =>
        \A q \in LatchesHeldBy(t) :
           (tree_pages[q].kind = "leaf" /\ latch[q].w = t) => q < p

\* CoalesceOrRedistribute holds a leaf and is about to latch its sibling of a
\* larger page id
C28_Witness ==
  \E t \in Threads :
     /\ thr[t].pc = "cor_latch_sib" /\ ~thr[t].need_reacquire
     /\ latch[thr[t].cor_page].w = t
     /\ tree_pages[thr[t].cor_page].kind = "leaf"
     /\ thr[t].cor_page < thr[t].sibling_id

(***************************************************************************)
(* Claims on the creation of the first root.                               *)
(***************************************************************************)
\* both threads called Insert, with distinct keys, on the empty tree
C31_FirstInserts ==
  /\ preloaded = {}
  /\ \A t \in Threads : Len(calls[t]) = 1 /\ calls[t][1][1] = "Insert"
  /\ \A t, u \in Threads : t # u => calls[t][1][2] # calls[u][1][2]

\* the pages that were built as a root and not given back
C31_RootsPublished ==
  {p \in 1..(tree_next_pid - 1) :
     tree_pages[p] # FreePage /\ tree_pages[p].parent = INVALID_PAGE_ID}

\* C31: when two threads call Insert with distinct keys on the empty tree
\* and both calls have returned, the key of every Insert that returned true
\* is in the tree below root_page_id_, and exactly one root page was
\* published.
C31_NoLostFirstInsert ==
  (C31_FirstInserts /\ Idle) =>
     /\ \A t \in Threads :
           thr[t].ret = "true" =>
              /\ root_page_id_ # INVALID_PAGE_ID
              /\ thr[t].key \in KeysUnder(root_page_id_)
     /\ Cardinality(C31_RootsPublished) = 1

\* the second thread saw the root of the first: both keys are in one tree
C31_Witness ==
  /\ C31_FirstInserts /\ Idle
  /\ \A t \in Threads : thr[t].ret = "true"
  /\ root_page_id_ # INVALID_PAGE_ID
  /\ \A t \in Threads : thr[t].key \in KeysUnder(root_page_id_)
  /\ tree_next_pid > 2

(***************************************************************************)
(* Claims on the shape of the tree after Remove.                           *)
(***************************************************************************)
\* C32: after a Remove has completed, the root is not an internal page with
\* a single child.
C32_RootNotSingleChild ==
  (Idle /\ thr[1].op = "Remove" /\ root_page_id_ # INVALID_PAGE_ID) =>
     ~(/\ tree_pages[root_page_id_].kind = "internal"
       /\ GetSize(tree_pages[root_page_id_]) = 1)

\* a Remove merged two leaves below an internal root that keeps two children
C32_Witness ==
  /\ Idle /\ thr[1].op = "Remove" /\ root_page_id_ # INVALID_PAGE_ID
  /\ tree_pages[root_page_id_].kind = "internal"
  /\ GetSize(tree_pages[root_page_id_]) = 2
  /\ \E p \in 1..(tree_next_pid - 1) : tree_pages[p] = FreePage

\* every internal page below the root holds at least min_size entries
C33_InternalsFilled ==
  \A p \in TreePages :
     (tree_pages[p].kind = "internal" /\ p # root_page_id_) =>
        GetSize(tree_pages[p]) >= GetMinSize(tree_pages[p])

\* C33: after a Remove has completed, no internal page below the root holds
\* fewer than min_size entries: an internal page that a leaf merge left under
\* min_size was refilled from a sibling or merged with it.
C33_InternalUnderflowRepaired ==
  (Idle /\ thr[1].op = "Remove") => C33_InternalsFilled

(***************************************************************************)
(* Claims on the pins of the tree's pages.                                 *)
(***************************************************************************)
\* C34: no UnpinPage call of a tree operation is made on a page whose pin
\* count is 0, and when no operation is running every page has pin count 0.
C34_PinsBalanced ==
  /\ ~unpin_false
  /\ Idle => \A p \in Pids : tree_pin[p] = 0

\* a Remove that merged two leaves returned with every pin given back once
C34_Witness ==
  /\ Idle /\ thr[1].op = "Remove" /\ ~unpin_false
  /\ \A p \in Pids : tree_pin[p] = 0
  /\ root_page_id_ # INVALID_PAGE_ID
  /\ tree_pages[root_page_id_].kind = "internal"
  /\ \E p \in 1..(tree_next_pid - 1) : tree_pages[p] = FreePage

(***************************************************************************)
(* Begin(key): the leaf for the key, the first slot whose key is not below *)
(* it, one step into the successor leaf when the leaf has no such slot.    *)
(***************************************************************************)
RECURSIVE BeginLeaf(_, _)
BeginLeaf(p, key) ==
  IF tree_pages[p].kind = "internal"
  THEN BeginLeaf(ValueAt(tree_pages[p], ScanIndex(tree_pages[p], key, 1) - 1), key)
  ELSE p

\* while (key_index < size && key > KeyAt(key_index)) key_index++;
RECURSIVE KeyIndexScan(_, _, _)
KeyIndexScan(leaf_node, key, key_index) ==
  IF key_index < GetSize(leaf_node) /\ key > KeyAt(leaf_node, key_index)
  THEN KeyIndexScan(leaf_node, key, key_index + 1)
  ELSE key_index

\* Begin(key) that does not look into the successor leaf
BeginKeyNoSuccessor(key) ==
  IF root_page_id_ = INVALID_PAGE_ID THEN End
  ELSE LET current_page_id == BeginLeaf(root_page_id_, key)
           leaf_node == tree_pages[current_page_id]
           key_index == KeyIndexScan(leaf_node, key, 0)
       IN IF key_index >= GetSize(leaf_node) THEN End
          ELSE IndexIterator(current_page_id, key_index)

BeginKey(key) ==
  IF root_page_id_ = INVALID_PAGE_ID THEN End
  ELSE LET current_page_id == BeginLeaf(root_page_id_, key)
           leaf_node == tree_pages[current_page_id]
           key_index == KeyIndexScan(leaf_node, key, 0)
           next_page_id == leaf_node.next
       IN IF key_index >= GetSize(leaf_node)
          THEN IF next_page_id = INVALID_PAGE_ID THEN End
               ELSE LET next_index == KeyIndexScan(tree_pages[next_page_id], key, 0)
                    IN IF next_index >= GetSize(tree_pages[next_page_id]) THEN End
                       ELSE IndexIterator(next_page_id, next_index)
          ELSE IndexIterator(current_page_id, key_index)

\* the iterator after n increments
RECURSIVE C35_After(_, _)
C35_After(it, n) == IF n = 0 THEN it ELSE IteratorNext(C35_After(it, n - 1))

C35_Starts == {Begin} \cup {BeginKey(key) : key \in ConcKeys}

C35_EndIsEnd(it) == IsEnd(it) <=> IteratorEquals(it, End)

\* C35: between calls, for every iterator that Begin() or Begin(key) returns
\* and after any number of increments, IsEnd() is true iff the iterator
\* equals End(); so the loop from Begin() to End() ends at End().
C35_IsEndIffEnd ==
  Idle =>
     /\ \A it \in C35_Starts : \A n \in 0..ScanFuel : C35_EndIsEnd(C35_After(it, n))
     /\ Scan(Begin, <<>>, ScanFuel).done

\* iterators over a chain of three leaves that all hold keys, from Begin()
\* and from a Begin(key) that starts in the successor leaf
C35_Witness ==
  /\ Idle /\ TreeHeight = 2
  /\ GetSize(tree_pages[root_page_id_]) = 3
  /\ \A it \in C35_Starts : \A n \in 0..ScanFuel : C35_EndIsEnd(C35_After(it, n))
  /\ Len(Scan(Begin, <<>>, ScanFuel).keys) >= 4
  /\ \E key \in ConcKeys :
        /\ BeginKey(key) # End
        /\ BeginKey(key).page_id # BeginLeaf(root_page_id_, key)

\* the live keys that are not below key
C36_NotBelow(key) == {k \in Keys : live[k] # 0 /\ k >= key}

C37_HashBits == CHOOSE w \in 0..(MaxHashKey + 1) :
                   2 ^ w > MaxHashKey /\ \A v \in 0..(w - 1) : 2 ^ v <= MaxHashKey

\* The loop of Insert, cut after `splits` splits: the local depth of the
\* bucket the key maps to at each iteration, the table at the end, and
\* whether the key was stored.
RECURSIVE C37_Loop(_, _, _, _)
C37_Loop(ht, key, value, splits) ==
  LET b == ht.dir_[IndexOf(ht, key) + 1]
      r == BucketInsert(ht.buckets[b], key, value)
      depth == GetLocalDepth(ht, IndexOf(ht, key))
  IN IF r.ok
     THEN [depths |-> <<depth>>, ht |-> [ht EXCEPT !.buckets[b] = r.bucket], stored |-> TRUE]
     ELSE IF splits = 0 THEN [depths |-> <<depth>>, ht |-> ht, stored |-> FALSE]
     ELSE LET ht1 == IF ht.buckets[b].depth_ = ht.global_depth_
                     THEN [ht EXCEPT !.global_depth_ = @ + 1, !.dir_ = @ \o @]
                     ELSE ht
              rest == C37_Loop(RedistributeBucket(ht1, b), key, value, splits - 1)
          IN [rest EXCEPT !.depths = <<depth>> \o @]

\* C37: Insert of a key ends after at most as many splits as the keys have
\* hash bits; from one iteration of its loop to the next the local depth of
\* the bucket the key maps to grows, and the table Insert leaves is the one
\* of the last iteration, with the key stored.
C37_InsertTerminates ==
  \A key \in HashKeys, value \in HashValues :
     LET run == C37_Loop(hash_table, key, value, C37_HashBits)
     IN /\ run.stored
        /\ \A i \in 1..(Len(run.depths) - 1) : run.depths[i] < run.depths[i + 1]
        /\ HashFind(run.ht, key) = [found |-> TRUE, value |-> value]
        /\ HashInsert(hash_table, key, value) = run.ht

\* a full bucket whose keys agree with a new key in the lowest bit: the
\* Insert of the new key takes two splits
C37_Witness ==
  \E key \in HashKeys, value \in HashValues :
     LET run == C37_Loop(hash_table, key, value, C37_HashBits)
     IN hash_model[key] = 0 /\ run.stored /\ Len(run.depths) >= 3

(***************************************************************************)
(* Claims on the frames of the buffer pool.                                *)
(***************************************************************************)
\* how often frame f is in the free list
C38_TimesFree(f) ==
  Cardinality({i \in 1..Len(bpm.free_list_) : bpm.free_list_[i] = f})

C38_Free(f) ==
  /\ C38_TimesFree(f) = 1
  /\ bpm.pages_[f].page_id_ = INVALID_PAGE_ID
  /\ bpm.replacer_.history_[f] = <<>>
  /\ ~bpm.replacer_.evictable_[f]

C38_Holding(f) ==
  /\ C38_TimesFree(f) = 0
  /\ bpm.pages_[f].page_id_ # INVALID_PAGE_ID
  /\ HashFind(bpm.page_table_, bpm.pages_[f].page_id_) = [found |-> TRUE, value |-> f]

C39_Unpinned ==
  {f \in Frames : bpm.pages_[f].page_id_ # INVALID_PAGE_ID /\ bpm.pages_[f].pin_count_ = 0}

\* C39: between the operations of the pool, a frame that holds a resident
\* page is marked evictable in the replacer iff the page's pin count is 0,
\* and the replacer's Size() is the number of such frames.
C39_EvictableIffUnpinned ==
  /\ \A f \in Frames :
        bpm.pages_[f].page_id_ # INVALID_PAGE_ID =>
           (bpm.replacer_.evictable_[f] <=> bpm.pages_[f].pin_count_ = 0)
  /\ Size(bpm.replacer_) = Cardinality(C39_Unpinned)

\* a page pinned twice was unpinned once and is not evictable, next to a
\* frame whose page has lost its last pin
C39_Witness ==
  /\ bpm.ret = "true"
  /\ Size(bpm.replacer_) = 1
  /\ \E f, g \in Frames :
        /\ bpm.pages_[f].page_id_ # INVALID_PAGE_ID /\ bpm.pages_[f].pin_count_ = 1
        /\ Len(bpm.replacer_.history_[f]) >= 2
        /\ g \in C39_Unpinned

(***************************************************************************)
(* Claims on the operations called without a transaction.                  *)
(***************************************************************************)
\* thread t is about to latch a page on which it holds a latch
C40_LatchesAgain(t) ==
  LET p == LatchWanted(State, t)
  IN p # INVALID_PAGE_ID /\ p \in LatchesHeldBy(t)

\* C40: Insert, Remove and GetValue called with transaction == nullptr
\* return with no page latch held and no page pinned, and never try to latch
\* a page whose latch they hold.
C40_NoTransactionReleasesAll ==
  \A t \in Threads :
     ~thr[t].txn =>
        /\ ~C40_LatchesAgain(t)
        /\ thr[t].pc = "idle" =>
              /\ LatchesHeldBy(t) = {}
              /\ \A p \in Pids : tree_pin[p] = 0

\* an Insert without a transaction split a leaf below an internal root and
\* gave back every latch and pin
C40_Witness ==
  /\ ~thr[1].txn /\ thr[1].pc = "idle" /\ thr[1].op = "Insert" /\ thr[1].ret = "true"
  /\ TreeHeight = 2
  /\ GetSize(tree_pages[root_page_id_]) = 3
  /\ tree_pages[tree_next_pid - 1].kind = "leaf"
  /\ thr[1].key \in LeafKeys(tree_pages[tree_next_pid - 1])
  /\ LatchesHeldBy(1) = {}
  /\ \A p \in Pids : tree_pin[p] = 0

====
